---- MODULE Spec2Model ----
(***************************************************************************)
(* A state-machine model of the ingest-and-storage core of vodnik:         *)
(* batch validation and partitioning, the write-ahead log (framing,        *)
(* rotation, recovery scan), the hot set (live / flushing blocks per       *)
(* series), the cold path (read-modify-write of persisted blocks), the     *)
(* background flush task and start-up recovery.                            *)
(***************************************************************************)
EXTENDS Integers, Sequences, FiniteSets, TLC

(***************************************************************************)
(* Bounds of the model.                                                    *)
(***************************************************************************)
\* largest timestamp of a request: block 0 holds timestamps 0 and 1, block 1
\* timestamps 2 and 3
MaxTs == 2
\* number of ingest requests a run receives over one client connection
MaxReq == 3
\* number of ingest requests a run receives over two client connections
MaxConcReq == 2
\* longest vector of a request in the validation specification
MaxLen == 2
\* largest block length, sample length (in ms) and timestamp of the series
\* specification
MaxBlockLen == 5
MaxSampleLen == 3
MaxSeriesTs == 9
\* number of cold-path requests of the cold-write specification
MaxColdReq == 2
\* longest batch and largest timestamp of the partition specification
PartMaxLen == 3
PartMaxTs == 4
\* number of requests a run of the validation specification receives
MaxValReq == 1
\* requests of several partitions per run of the serving process
MaxBatchReq == 2
\* slots of the block whose statistics are recomputed, writes into it
StatsSlots == 3
MaxStatWrites == 2
\* number of WAL appends explored by the WAL specification
MaxAppends == 3
\* number of WRITE frames in the WAL directory a recovery starts from
MaxWalWrites == 3
\* number of times the process is killed during recovery
MaxCrash == 1
\* number of hot-set operations explored by the hot-set specification, the
\* largest block number and the largest tx of their batches
MaxHotOps == 3
MaxHotBlock == 2
MaxHotTx == 2
\* WalConfig.max_file_size, in bytes, scaled down so that rotations happen:
\* a WRITE frame of one u8 sample takes 47 bytes, a FLUSH frame 33
WalMaxFileSize == 50

(***************************************************************************)
(* Program constants.                                                      *)
(***************************************************************************)
TAG_WRITE == 1
TAG_FLUSH == 2
MAX_RETRIES == 3
\* Quality layout QQ_SSSS_LL
GOOD == 192
BAD == 0
UNCERTAIN == 64
MISSING == 128
MASK_MAJOR == 192
\* The quality accumulator flags 1, 1 << 1, 1 << 2, 1 << 3.  A u32 bit mask
\* is modelled as the set of its set bit positions, so ACC_GOOD is {0},
\* u32::MAX is 0..31, | is \cup and & is \cap.
ACC_GOOD == {0}
ACC_BAD == {1}
ACC_UNCERTAIN == {2}
ACC_NODATA == {3}
MASK_U32_MAX == 0..31
\* u32::MAX as an offset sentinel.  TLC's integers are 32-bit signed: the
\* sentinel is the largest of them, above every slot index of the model.
U32_MAX == 2147483647
\* The sample type of the modelled series is u8 (Enumeration): T::max_value(),
\* T::min_value(); its accumulator is u64, which no block of the model fills.
T_MAX == 255
T_MIN == 0

(***************************************************************************)
(* Option values: <<>> is None, <<x>> is Some(x).                          *)
(***************************************************************************)
None == <<>>
Some(x) == <<x>>
IsSome(o) == Len(o) = 1
Unwrap(o) == o[1]

EmptyMap == [x \in {} |-> 0]
MapPut(f, k, v) == [x \in (DOMAIN f) \cup {k} |-> IF x = k THEN v ELSE f[x]]
MapDel(f, k) == [x \in (DOMAIN f) \ {k} |-> f[x]]

Min2(a, b) == IF a < b THEN a ELSE b
Max2(a, b) == IF a > b THEN a ELSE b

(***************************************************************************)
(* Bit operations on the 8-bit quality code.                               *)
(***************************************************************************)
RECURSIVE BitAnd(_, _)
BitAnd(a, b) ==
    IF a = 0 \/ b = 0 THEN 0
    ELSE (IF a % 2 = 1 /\ b % 2 = 1 THEN 1 ELSE 0) + 2 * BitAnd(a \div 2, b \div 2)

(***************************************************************************)
(* Quality (vodnik-core/src/meta.rs).                                      *)
(***************************************************************************)
is_good(q) == BitAnd(q, MASK_MAJOR) = GOOD
is_bad(q) == BitAnd(q, MASK_MAJOR) = BAD
is_uncertain(q) == BitAnd(q, MASK_MAJOR) = UNCERTAIN
is_missing(q) == BitAnd(q, MASK_MAJOR) = MISSING

(***************************************************************************)
(* The series descriptors of the catalog.  One Enumeration (u8) series     *)
(* whose block spans two samples (so the capacity of a block is 2).        *)
(***************************************************************************)
Series == {1}
\* series 1 has blocks of two samples; series StatsSeries has blocks of
\* StatsSlots samples
StatsSeries == 2
SeriesMetaOf(s) ==
    [id |-> s, storage_type |-> "Enumeration",
     block_length |-> IF s = StatsSeries THEN StatsSlots ELSE 2, block_resolution |-> 1,
     sample_length |-> 1, sample_resolution |-> 1]

get_block_start_as_offset(meta, block_id) ==
    meta.block_resolution * block_id * meta.block_length
get_block_id(meta, unix_ms) ==
    unix_ms \div (meta.block_length * meta.block_resolution)
get_sample_offset(meta, delta) ==
    delta \div (meta.sample_length * meta.sample_resolution)
duration(res, len) == len * res
get_block_length(meta) ==
    duration(meta.block_resolution, meta.block_length)
        \div duration(meta.sample_resolution, meta.sample_length)

(***************************************************************************)
(* Block statistics (BlockMeta<u8>, accumulator u64).                      *)
(***************************************************************************)
BlockMetaNew ==
    [count_non_missing |-> 0, count_valid |-> 0,
     sum |-> 0, min |-> T_MAX, max |-> T_MIN,
     fst_valid |-> 0, fst_valid_q |-> MISSING,
     lst_valid |-> 0, lst_valid_q |-> MISSING,
     fst_valid_offset |-> U32_MAX, lst_valid_offset |-> 0,
     fst |-> 0, fst_q |-> MISSING, lst |-> 0, lst_q |-> MISSING,
     fst_offset |-> U32_MAX, lst_offset |-> 0,
     qual_acc_or |-> {}, qual_acc_and |-> MASK_U32_MAX,
     object_key |-> 0]

\* u64::saturating_add; the bound 2^64 - 1 is out of reach of capacity * 255
safe_add(a, b) == a + b

qual_flag(q) ==
    IF is_missing(q) THEN ACC_NODATA
    ELSE IF is_bad(q) THEN ACC_BAD
    ELSE IF is_uncertain(q) THEN ACC_UNCERTAIN
    ELSE ACC_GOOD

\* the parts of the body of the scan loop for slot idx (0-based) holding (v, q)
step_qual(m, q) ==
    [m EXCEPT !.qual_acc_or = @ \cup qual_flag(q),
              !.qual_acc_and = @ \cap qual_flag(q)]
step_count(m) == [m EXCEPT !.count_non_missing = @ + 1]
step_fst(m, idx, v, q) ==
    IF idx < m.fst_offset
    THEN [m EXCEPT !.fst_offset = idx, !.fst = v, !.fst_q = q]
    ELSE m
step_lst(m, idx, v, q) ==
    IF idx >= m.lst_offset
    THEN [m EXCEPT !.lst_offset = idx, !.lst = v, !.lst_q = q]
    ELSE m
step_valid_bad_min(m, v) ==
    [m EXCEPT !.count_valid = @ + 1,
              !.sum = safe_add(@, v),
              !.min = IF v > @ THEN v ELSE @,
              !.max = IF v > @ THEN v ELSE @]
step_valid(m, v) ==
    [m EXCEPT !.count_valid = @ + 1,
              !.sum = safe_add(@, v),
              !.min = IF v < @ THEN v ELSE @,
              !.max = IF v > @ THEN v ELSE @]
step_fst_valid(m, idx, v, q) ==
    IF idx < m.fst_valid_offset
    THEN [m EXCEPT !.fst_valid_offset = idx, !.fst_valid = v, !.fst_valid_q = q]
    ELSE m
step_lst_valid(m, idx, v, q) ==
    IF idx >= m.lst_valid_offset
    THEN [m EXCEPT !.lst_valid_offset = idx, !.lst_valid = v, !.lst_valid_q = q]
    ELSE m
step_non_missing(m, idx, v, q) ==
    step_lst(step_fst(step_count(m), idx, v, q), idx, v, q)

\* the body of the scan loop
recalc_step(m, idx, v, q) ==
    IF is_missing(q) THEN step_qual(m, q)
    ELSE IF ~(is_good(q) \/ is_uncertain(q))
    THEN step_non_missing(step_qual(m, q), idx, v, q)
    ELSE step_lst_valid(
           step_fst_valid(
             step_valid(step_non_missing(step_qual(m, q), idx, v, q), v),
             idx, v, q),
           idx, v, q)

RECURSIVE recalc_scan(_, _, _, _)
recalc_scan(m, vals, qs, i) ==
    IF i > Len(vals) THEN m
    ELSE recalc_scan(recalc_step(m, i - 1, vals[i], qs[i]), vals, qs, i + 1)

\* the statistics are reset: lst, lst_q, lst_valid and lst_valid_q are not
recalc_reset(m) ==
    [m EXCEPT !.count_non_missing = 0, !.count_valid = 0,
              !.sum = 0, !.min = T_MAX, !.max = T_MIN,
              !.fst_offset = U32_MAX, !.lst_offset = 0,
              !.fst = 0, !.fst_q = MISSING,
              !.fst_valid_offset = U32_MAX, !.lst_valid_offset = 0,
              !.fst_valid = 0, !.fst_valid_q = MISSING,
              !.qual_acc_or = {}, !.qual_acc_and = MASK_U32_MAX]
recalc_finish_keep(m) == m
\* no valid sample: min and max are the default of the sample type
recalc_finish(m) ==
    IF m.count_valid = 0 THEN [m EXCEPT !.min = 0, !.max = 0] ELSE m

recalc_block_data_full(m, vals, qs) ==
    recalc_finish(recalc_scan(recalc_reset(m), vals, qs, 1))

(***************************************************************************)
(* Sized blocks and the write-at-offset algorithm.                         *)
(***************************************************************************)
new_sized_block(len) ==
    [meta |-> BlockMetaNew,
     vals |-> [i \in 1..len |-> 0],
     qs |-> [i \in 1..len |-> MISSING]]

\* A write batch: the samples of one partition, all of block block_id.
WriteBatch(s, block_id, ts, vals, qs, tx) ==
    [series |-> s, block_id |-> block_id, ts |-> ts, vals |-> vals, qs |-> qs,
     tx |-> tx]

sample_index(batch, i) ==
    get_sample_offset(SeriesMetaOf(batch.series),
        batch.ts[i] - get_block_start_as_offset(SeriesMetaOf(batch.series),
                                                batch.block_id))

RECURSIVE write_samples(_, _, _)
write_samples(blk, batch, i) ==
    IF i > Len(batch.ts) THEN blk
    ELSE write_samples(
           [blk EXCEPT !.vals[sample_index(batch, i) + 1] = batch.vals[i],
                       !.qs[sample_index(batch, i) + 1] = batch.qs[i]],
           batch, i + 1)

\* block_meta.recalc_block_data_full(vals, qs) on the written vectors
recalc_block(w) == [w EXCEPT !.meta = recalc_block_data_full(w.meta, w.vals, w.qs)]

write_to_block(blk, batch) == recalc_block(write_samples(blk, batch, 1))

(***************************************************************************)
(* The state of the program.                                               *)
(*   hot      DashMap<SeriesId, HotData>: per series "absent" or a slot    *)
(*   lock     the holder of the slot's lock (a process name) or None       *)
(*   txid     the TXID counter                                             *)
(*   walDir   the WAL directory: file index -> the bytes of wal_NNN.log,   *)
(*            as the sequence of the frames (or torn frames) appended      *)
(*   wal      the Wal writer: current_file, next_file_idx, current_size    *)
(*   objects  the object store: object key -> block                        *)
(*   catalog  the block catalog: <<series, block>> -> object key, stats    *)
(*   cl       the ingest requests in progress, one per client connection   *)
(*   tasks    the background flush tasks                                   *)
(*   rec      the main task: start-up recovery, then serving               *)
(*   obs      what the last operation was given and returned               *)
(***************************************************************************)
VARIABLES hot, lock, txid, walDir, wal, objects, catalog, cl, tasks, rec, obs

vars == <<hot, lock, txid, walDir, wal, objects, catalog, cl, tasks, rec, obs>>

(***************************************************************************)
(* HotData (vodnik-server/src/hot.rs).  live is None or Some of            *)
(* [tx, blk]; flushing maps a block number to [tx, blk].                   *)
(***************************************************************************)
HotDataDefault == [live |-> None, flushing |-> EmptyMap, live_id |-> None]

flush_live(hd) ==
    [hd EXCEPT !.live = None,
               !.flushing = MapPut(hd.flushing, Unwrap(hd.live_id), Unwrap(hd.live))]

ResOk(live, flushing) == [kind |-> "Ok", live |-> live, flushing |-> flushing]
ResBusy == [kind |-> "Busy"]
ResNeedsColdStore == [kind |-> "NeedsColdStore"]

\* WriteResult::Ok { live: live_id.unwrap(), flushing: flushing.keys() }
write_result(hd) == [hd |-> hd, res |-> ResOk(Unwrap(hd.live_id), DOMAIN hd.flushing)]

\* a restore that records the tx of the last batch as tx_high
write_restore_last(hd, batch, tx, current) ==
    write_result([hd EXCEPT !.live = Some([tx |-> batch.tx,
                                           blk |-> write_to_block(current, batch)]),
                            !.live_id = Some(batch.block_id)])

\* the block is written, tx_high raised, and the live slot restored
write_restore(hd, batch, tx, current) ==
    write_result([hd EXCEPT !.live = Some([tx |-> Max2(batch.tx, tx),
                                           blk |-> write_to_block(current, batch)]),
                            !.live_id = Some(batch.block_id)])

\* a rotation that forgets the old live block instead of moving it to flushing
write_into_block_drop(hd, batch) ==
    LET len == get_block_length(SeriesMetaOf(batch.series))
    IN IF IsSome(hd.live)
       THEN IF Unwrap(hd.live_id) < batch.block_id
            THEN write_restore([hd EXCEPT !.live = None], batch, batch.tx,
                               new_sized_block(len))
            ELSE IF Unwrap(hd.live_id) > batch.block_id
            THEN [hd |-> hd, res |-> ResNeedsColdStore]
            ELSE write_restore([hd EXCEPT !.live = None], batch,
                               Unwrap(hd.live).tx, Unwrap(hd.live).blk)
       ELSE write_restore(hd, batch, batch.tx, new_sized_block(len))

\* a write that takes the live block out of the slot before it compares the
\* block numbers, and returns from the backfill case without restoring it
write_into_block_take(hd, batch) ==
    LET len == get_block_length(SeriesMetaOf(batch.series))
    IN IF IsSome(hd.live)
       THEN IF Unwrap(hd.live_id) < batch.block_id
            THEN write_restore(flush_live(hd), batch, batch.tx, new_sized_block(len))
            ELSE IF Unwrap(hd.live_id) > batch.block_id
            THEN [hd |-> [hd EXCEPT !.live = None], res |-> ResNeedsColdStore]
            ELSE write_restore([hd EXCEPT !.live = None], batch,
                               Unwrap(hd.live).tx, Unwrap(hd.live).blk)
       ELSE write_restore(hd, batch, batch.tx, new_sized_block(len))

write_into_block(hd, batch) ==
    LET len == get_block_length(SeriesMetaOf(batch.series))
    IN IF IsSome(hd.live)
       THEN IF Unwrap(hd.live_id) < batch.block_id
            THEN \* rotation: a newer block arrived
                 write_restore(flush_live(hd), batch, batch.tx, new_sized_block(len))
            ELSE IF Unwrap(hd.live_id) > batch.block_id
            THEN \* backfill: an older block arrived
                 [hd |-> hd, res |-> ResNeedsColdStore]
            ELSE \* current: append to the live block
                 write_restore([hd EXCEPT !.live = None], batch,
                               Unwrap(hd.live).tx, Unwrap(hd.live).blk)
       ELSE \* cold start: first block of the slot
            write_restore(hd, batch, batch.tx, new_sized_block(len))

\* a take that hands the entry out and leaves it in the map
take_flushing_block_keep(hd, block) ==
    IF block \in DOMAIN hd.flushing
    THEN [hd |-> hd, out |-> Some(hd.flushing[block])]
    ELSE [hd |-> hd, out |-> None]

\* HashMap::remove: the entry, if any, and the map without it
take_flushing_block(hd, block) ==
    IF block \in DOMAIN hd.flushing
    THEN [hd |-> [hd EXCEPT !.flushing = MapDel(hd.flushing, block)],
          out |-> Some(hd.flushing[block])]
    ELSE [hd |-> hd, out |-> None]

(***************************************************************************)
(* WAL entries and frames (vodnik-core/src/wal.rs).                        *)
(***************************************************************************)
WriteEntry(tx, s, block, ts, vals, qs) ==
    [tag |-> TAG_WRITE, tx |-> tx, series |-> s, block |-> block,
     ts |-> ts, vals |-> vals, qs |-> qs]
FlushEntry(tx, s, block) ==
    [tag |-> TAG_FLUSH, tx |-> tx, series |-> s, block |-> block]

from_write_batch(batch) ==
    WriteEntry(batch.tx, batch.series, batch.block_id, batch.ts, batch.vals, batch.qs)

\* size_of of the fields of one sample of an Enumeration series
SIZE_U8 == 1
SIZE_U32 == 4
SIZE_U64 == 8

storage_size_bytes(e) ==
    IF e.tag = TAG_WRITE
    THEN SIZE_U8 + SIZE_U64 + SIZE_U64 + SIZE_U64 + SIZE_U32
         + SIZE_U8 * Len(e.vals) + SIZE_U64 * Len(e.ts) + SIZE_U8 * Len(e.qs)
    ELSE SIZE_U8 + SIZE_U64 + SIZE_U64 + SIZE_U64

\* WalEntry::write: the payload as the sequence of the fields written, in
\* the order written (every field little-endian at its native width)
entry_write(e) ==
    IF e.tag = TAG_WRITE
    THEN <<TAG_WRITE, e.tx, e.series, e.block, Len(e.ts)>> \o e.ts \o e.vals \o e.qs
    ELSE <<TAG_FLUSH, e.tx, e.series, e.block>>

\* WalEntry::read: Err on an unknown tag or a zero series id
entry_read(p) ==
    IF p[1] = TAG_WRITE
    THEN IF p[3] = 0 THEN [ok |-> FALSE]
         ELSE LET count == p[5]
              IN [ok |-> TRUE,
                  entry |-> WriteEntry(p[2], p[3], p[4],
                                       SubSeq(p, 6, 5 + count),
                                       SubSeq(p, 6 + count, 5 + 2 * count),
                                       SubSeq(p, 6 + 2 * count, 5 + 3 * count))]
    ELSE IF p[1] = TAG_FLUSH
    THEN IF p[3] = 0 THEN [ok |-> FALSE]
         ELSE [ok |-> TRUE, entry |-> FlushEntry(p[2], p[3], p[4])]
    ELSE [ok |-> FALSE]

\* WalEntryHeader::peek
header_peek(p) == [tag |-> p[1], tx |-> p[2], series |-> p[3], block |-> p[4]]

\* The checksum of a payload.  CRC-32-ISCSI is abstracted by a positional
\* checksum of the payload's fields.
RECURSIVE calc_crc_from(_, _)
calc_crc_from(p, i) ==
    IF i > Len(p) THEN 0 ELSE (i * (p[i] + 1) + 31 * calc_crc_from(p, i + 1)) % 65521
calc_crc(p) == calc_crc_from(p, 1)

\* WalFrame with set_crc applied; bytes is get_storage_size, [LEN][CRC][PAYLOAD]
WalFrame(e) ==
    [len |-> storage_size_bytes(e), crc |-> calc_crc(entry_write(e)),
     payload |-> entry_write(e)]
get_storage_size(frame) == SIZE_U32 + SIZE_U32 + frame.len

(***************************************************************************)
(* A WAL file is the sequence of the frames appended to it.  An element    *)
(* [frame, have] holds the first `have` bytes of the frame: all of them    *)
(* for a frame written whole, fewer for a frame whose write stopped        *)
(* part-way (a torn frame).                                                *)
(***************************************************************************)
Whole(frame) == [frame |-> frame, have |-> get_storage_size(frame)]
Torn(frame, have) == [frame |-> frame, have |-> have]
IsWhole(x) == x.have = get_storage_size(x.frame)

ItemOk(frame) == [ok |-> TRUE, frame |-> frame]
ItemErr(kind) == [ok |-> FALSE, err |-> kind]

\* WalFrameIterator: what next() yields for the file's bytes from element i
\* on, until it returns None.  A whole frame is read and its CRC compared.
\* A torn frame at the end of the file ends the iteration, silently when
\* the 8-byte header is incomplete and with one I/O error when the payload
\* is.  Behind a torn frame that is not the last, every later header is
\* read at a wrong position: the iterator reports a corrupted frame there
\* and no later frame is recognised.
RECURSIVE frame_iterator_from(_, _)
frame_iterator_from(file, i) ==
    IF i > Len(file) THEN <<>>
    ELSE IF IsWhole(file[i])
    THEN IF file[i].frame.len = 0
         THEN <<ItemErr("InvalidFrameLength")>>
         ELSE IF calc_crc(file[i].frame.payload) # file[i].frame.crc
         THEN <<ItemErr("ChecksumMismatch")>> \o frame_iterator_from(file, i + 1)
         ELSE <<ItemOk(file[i].frame)>> \o frame_iterator_from(file, i + 1)
    ELSE IF i = Len(file)
    THEN IF file[i].have < SIZE_U32 + SIZE_U32 THEN <<>> ELSE <<ItemErr("Io")>>
    ELSE <<ItemErr("ChecksumMismatch")>>
frame_iterator_quiet(file) ==
    SelectSeq(frame_iterator_from(file, 1), LAMBDA it : it.ok \/ it.err # "Io")
frame_iterator(file) == frame_iterator_from(file, 1)

(***************************************************************************)
(* The WAL writer (vodnik-server/src/wal.rs).  The directory maps a file   *)
(* index NNN to the content of wal_NNN.log.  An operation of the writer    *)
(* takes the fault the operating system injects into it: "none", or the    *)
(* step that fails ("open", "write", "sync", "rotate"); a failing write    *)
(* leaves the first `have` bytes of the frame in the file.                 *)
(***************************************************************************)
WalNew == [current_file |-> None, next_file_idx |-> 0, current_size |-> 0]
NoFault == [kind |-> "none", have |-> 0]

\* a write through the open handle of file idx; the bytes written to a file
\* that has been unlinked meanwhile are in no file of the directory
DirAppend(dir, idx, x) ==
    IF idx \in DOMAIN dir THEN [dir EXCEPT ![idx] = Append(@, x)] ELSE dir
\* OpenOptions create(true).append(true): an existing file is kept
DirCreate(dir, idx) ==
    [i \in (DOMAIN dir) \cup {idx} |-> IF i \in DOMAIN dir THEN dir[i] ELSE <<>>]

\* the index is taken before the file is opened
open_next_log(w, dir, fails) ==
    IF fails
    THEN [w |-> [w EXCEPT !.next_file_idx = @ + 1], dir |-> dir, ok |-> FALSE]
    ELSE [w |-> [current_file |-> Some(w.next_file_idx),
                 next_file_idx |-> w.next_file_idx + 1,
                 current_size |-> 0],
          dir |-> DirCreate(dir, w.next_file_idx), ok |-> TRUE]

\* the part of write_entry behind the open of the first file
write_frame(w, dir, e, fault) ==
    LET frame == WalFrame(e)
        idx == Unwrap(w.current_file)
    IN IF fault.kind = "write"
       THEN [w |-> w,
             dir |-> IF fault.have = 0 THEN dir
                     ELSE DirAppend(dir, idx, Torn(frame, fault.have)),
             ok |-> FALSE]
       ELSE
       LET dir1 == DirAppend(dir, idx, Whole(frame))
           w1 == [w EXCEPT !.current_size = @ + get_storage_size(frame)]
       IN IF fault.kind = "sync"
          THEN [w |-> w1, dir |-> dir1, ok |-> FALSE]
          ELSE IF w1.current_size > WalMaxFileSize
          THEN LET r == open_next_log(w1, dir1, fault.kind = "rotate")
               IN [w |-> r.w, dir |-> r.dir, ok |-> r.ok]
          ELSE [w |-> w1, dir |-> dir1, ok |-> TRUE]

\* a write_entry that reports success without having written the frame
write_entry_lost(w, dir, e, fault) ==
    [w |-> w, dir |-> dir, ok |-> fault.kind = "none"]

write_entry(w, dir, e, fault) ==
    IF w.current_file = None
    THEN LET o == open_next_log(w, dir, fault.kind = "open")
         IN IF o.ok THEN write_frame(o.w, o.dir, e, fault)
            ELSE [w |-> o.w, dir |-> o.dir, ok |-> FALSE]
    ELSE write_frame(w, dir, e, fault)

\* the faults explored: a write may fail before its first byte, or behind
\* the 8-byte header and TornBytes bytes of the payload
TornBytes == 4
Faults ==
    {NoFault} \cup {[kind |-> k, have |-> 0] : k \in {"open", "write", "sync", "rotate"}}
              \cup {[kind |-> "write", have |-> SIZE_U32 + SIZE_U32 + TornBytes]}

\* the faults that can strike write_entry(w, _, e, _)
FaultApplies(w, e, fault) ==
    CASE fault.kind = "none" -> TRUE
      [] fault.kind = "open" -> w.current_file = None
      [] fault.kind = "write" -> fault.have < get_storage_size(WalFrame(e))
      [] fault.kind = "sync" -> TRUE
      [] fault.kind = "rotate" ->
            (IF w.current_file = None THEN 0 ELSE w.current_size)
                + get_storage_size(WalFrame(e)) > WalMaxFileSize
      [] OTHER -> FALSE

(***************************************************************************)
(* The recovery scan.  std::fs::read_dir yields the files of the           *)
(* directory in an order that depends on the platform and the file system: *)
(* the scan takes the order as its input.                                  *)
(***************************************************************************)
Orders(S) ==
    {o \in [1..Cardinality(S) -> S] : \A i, j \in 1..Cardinality(S) : o[i] = o[j] => i = j}

\* the loop over the frames of one file: items is what the iterator yields
RECURSIVE scan_items(_, _, _)
scan_items(todo, items, i) ==
    IF i > Len(items) THEN [ok |-> TRUE, todo |-> todo]
    ELSE IF ~items[i].ok THEN [ok |-> FALSE, todo |-> todo]
    ELSE LET header == header_peek(items[i].frame.payload)
         IN IF header.series = 0 THEN [ok |-> FALSE, todo |-> todo]
            ELSE IF header.tag = TAG_WRITE
            THEN scan_items(MapPut(todo, header.tx, items[i].frame), items, i + 1)
            ELSE scan_items(MapDel(todo, header.tx), items, i + 1)

RECURSIVE scan_files(_, _, _, _)
scan_files(todo, dir, order, k) ==
    IF k > Len(order) THEN [ok |-> TRUE, todo |-> todo]
    ELSE LET r == scan_items(todo, frame_iterator(dir[order[k]]), 1)
         IN IF r.ok THEN scan_files(r.todo, dir, order, k + 1) ELSE r

find_wal_to_recover(dir, order) == scan_files(EmptyMap, dir, order, 1)

\* the surviving frames in ascending tx order (the iteration of the BTreeMap)
RECURSIVE SortedKeys(_)
SortedKeys(S) ==
    IF S = {} THEN <<>>
    ELSE LET m == CHOOSE x \in S : \A y \in S : x <= y
         IN <<m>> \o SortedKeys(S \ {m})
todo_in_order(todo) ==
    LET ks == SortedKeys(DOMAIN todo) IN [i \in 1..Len(ks) |-> todo[ks[i]]]

(***************************************************************************)
(* The ingest request (vodnik-server/src/ingest.rs).  A request is         *)
(* [series, ts, qs, vals, vtype]: vtype is the variant of ValueVec.        *)
(***************************************************************************)
Request(s, ts, vals, qs, vtype) ==
    [series |-> s, ts |-> ts, vals |-> vals, qs |-> qs, vtype |-> vtype]

\* a validation that does not look at the order of the timestamps
validate_unordered(req) ==
    IF Len(req.ts) # Len(req.vals) /\ Len(req.vals) = Len(req.qs)
    THEN "LengthMismatch"
    ELSE IF Len(req.ts) = 0 THEN "InvalidTimestamp"
    ELSE "Ok"

\* BatchIngest::validate
validate(req) ==
    IF Len(req.ts) # Len(req.vals) /\ Len(req.vals) = Len(req.qs)
    THEN "LengthMismatch"
    ELSE IF Len(req.ts) = 0 THEN "InvalidTimestamp"
    ELSE IF \E i \in 1..(Len(req.ts) - 1) : req.ts[i] > req.ts[i + 1]
    THEN "InvalidTimestamp"
    ELSE "Ok"

\* BatchIngest::check_type
check_type(req, stype) ==
    IF (req.vtype = "Enum" /\ stype = "Enumeration")
       \/ (req.vtype = "F32" /\ stype = "Float32")
       \/ (req.vtype = "F64" /\ stype = "Float64")
       \/ (req.vtype = "I32" /\ stype = "Int32")
       \/ (req.vtype = "I64" /\ stype = "Int64")
       \/ (req.vtype = "U32" /\ stype = "UInt32")
       \/ (req.vtype = "U64" /\ stype = "UInt64")
    THEN "Ok" ELSE "TypeMismatch"

\* From<IngestError> for ApiError, and the success of validation
ingest_error_status(e) ==
    CASE e = "LengthMismatch" -> "BadRequest"
      [] e = "TypeMismatch" -> "BadRequest"
      [] e = "InvalidTimestamp" -> "Unprocessable"
      [] OTHER -> "Ok"

\* IntoResponse for ApiError: the HTTP status of the response
into_response(e) ==
    CASE e = "BadRequest" -> "BAD_REQUEST"
      [] e = "NotFound" -> "NOT_FOUND"
      [] e = "Conflict" -> "CONFLICT"
      [] e = "Unprocessable" -> "UNPROCESSABLE_ENTITY"
      [] e = "Internal" -> "INTERNAL_SERVER_ERROR"
      [] e = "ResourceLocked" -> "SERVICE_UNAVAILABLE"
      [] OTHER -> "OK"

\* a batch_ingest that submits the whole batch as one range
partition_whole(req) ==
    <<[block |-> get_block_id(SeriesMetaOf(req.series), req.ts[1]),
       lo |-> 1, hi |-> Len(req.ts)]>>

\* the partition loop of batch_ingest: the maximal runs of equal block id,
\* each [block, lo, hi] with the 1-based index range lo..hi of the run
RECURSIVE partition_from(_, _, _, _)
partition_from(req, i, start, current) ==
    IF i > Len(req.ts)
    THEN <<[block |-> current, lo |-> start, hi |-> Len(req.ts)]>>
    ELSE LET next_block == get_block_id(SeriesMetaOf(req.series), req.ts[i])
         IN IF next_block # current
            THEN <<[block |-> current, lo |-> start, hi |-> i - 1]>>
                 \o partition_from(req, i + 1, i, next_block)
            ELSE partition_from(req, i + 1, start, current)
partition(req) ==
    partition_from(req, 2, 1, get_block_id(SeriesMetaOf(req.series), req.ts[1]))

\* the slices vals[range] and qs[range] exist (no out-of-range panic)
slice_ok(req, part) == part.hi <= Len(req.vals) /\ part.hi <= Len(req.qs)

batch_of(req, part, tx) ==
    WriteBatch(req.series, part.block,
               SubSeq(req.ts, part.lo, part.hi),
               SubSeq(req.vals, part.lo, part.hi),
               SubSeq(req.qs, part.lo, part.hi), tx)

(***************************************************************************)
(* The cold store (vodnik-server/src/persistence.rs): the object store and *)
(* the block catalog.                                                      *)
(***************************************************************************)
\* a key without the unique part: every write goes to the same object
new_object_key_fixed(objs) == 1

\* Ulid::new(): a key no object has yet
new_object_key(objs) == Cardinality(DOMAIN objs) + 1

\* get_object_key + read + decode; object_key is filled with the key used
read_block_from_storage(cat, objs, s, b) ==
    IF <<s, b>> \in DOMAIN cat
    THEN [ok |-> TRUE,
          block |-> [objs[cat[<<s, b>>].object_key]
                        EXCEPT !.meta.object_key = cat[<<s, b>>].object_key]]
    ELSE [ok |-> FALSE]

\* the first half of flush_block: the object is written under a new key
flush_block_put(objs, block) == MapPut(objs, new_object_key(objs), block)
\* the second half of flush_block: BlockMetaStore::upsert
upsert(cat, s, b, key, meta) ==
    MapPut(cat, <<s, b>>, [object_key |-> key, meta |-> [meta EXCEPT !.object_key = key]])

\* the block write_cold reads, or a fresh one, with the batch applied
write_cold_block(cat, objs, batch) ==
    LET r == read_block_from_storage(cat, objs, batch.series, batch.block_id)
        len == get_block_length(SeriesMetaOf(batch.series))
    IN write_to_block(IF r.ok THEN r.block ELSE new_sized_block(len), batch)

(***************************************************************************)
(* Processes.  A client connection runs batch_ingest; "main" is the main   *)
(* task, which runs recovery and replays WAL entries through write_chunk.  *)
(* pc is the position of the process:                                      *)
(*   idle   no request          alloc  before next_txid()                  *)
(*   wal    before the WAL append      hot  before hot.write               *)
(*   locked  inside hot.write, holding the slot (TryResult::Present)       *)
(*   absent  inside hot.write, before the insert (TryResult::Absent)       *)
(*   cold_read, cold_put, cold_upsert   the awaits of write_cold           *)
(*   ret    before the return of the handler with `status`                 *)
(***************************************************************************)
NoRequest == Request(0, <<>>, <<>>, <<>>, "none")
ClientIdle ==
    [pc |-> "idle", rid |-> 0, req |-> NoRequest, parts |-> <<>>, pi |-> 0,
     tx |-> 0, attempt |-> 0, blk |-> None, key |-> 0, status |-> "none"]

ClientRet_continue(r, status) ==
    IF status # "Ok" /\ r.pi < Len(r.parts)
    THEN [ClientIdle EXCEPT !.pc = "alloc", !.rid = r.rid, !.req = r.req,
                            !.parts = r.parts, !.pi = r.pi + 1]
    ELSE [ClientIdle EXCEPT !.pc = "ret", !.rid = r.rid, !.req = r.req, !.status = status]
ClientRet(r, status) ==
    [ClientIdle EXCEPT !.pc = "ret", !.rid = r.rid, !.req = r.req, !.status = status]

\* the batch of the partition the process is working on
cur_batch(r) == batch_of(r.req, r.parts[r.pi], r.tx)

\* the loop of batch_ingest reaches partition pi (or the end of the batch);
\* slicing vals and qs by the range of the partition panics when a vector is
\* too short
start_partition(r, pi) ==
    IF pi > Len(r.parts) THEN ClientRet(r, "Ok")
    ELSE IF ~slice_ok(r.req, r.parts[pi]) THEN ClientRet(r, "Panic")
    ELSE [ClientIdle EXCEPT !.pc = "alloc", !.rid = r.rid, !.req = r.req,
                            !.parts = r.parts, !.pi = pi]

\* batch_ingest up to the first partition, with the validation given
batch_ingest_begin(rid, req, validation) ==
    LET r == [ClientIdle EXCEPT !.rid = rid, !.req = req]
        v == validation
        t == IF v = "Ok" THEN check_type(req, SeriesMetaOf(req.series).storage_type)
             ELSE v
    IN IF t # "Ok" THEN ClientRet(r, ingest_error_status(t))
       ELSE start_partition([r EXCEPT !.parts = partition(req)], 1)

\* a background flush task (flush_background) and its position:
\*   take  before take_flushing_block   taking  inside it, holding the slot
\*   put, upsert  the awaits of flush_block   walflush  before the WAL append
NewTask(s, blocks) ==
    [series |-> s, blocks |-> blocks, pc |-> "take", tx |-> 0, blk |-> None, key |-> 0]

SeqRemove(q, i) == [j \in 1..(Len(q) - 1) |-> IF j < i THEN q[j] ELSE q[j + 1]]

\* the task is done with its first block
task_advance(q, i) ==
    IF Len(q[i].blocks) = 1 THEN SeqRemove(q, i)
    ELSE [q EXCEPT ![i] = NewTask(q[i].series, Tail(q[i].blocks))]

\* write_chunk behind hot.write: spawn on Ok with a non-empty flushing list
\* (in the order `order` of the keys of the HashMap), then the next partition
after_hot_client(r, res) ==
    IF res.kind = "Ok" THEN start_partition(r, r.pi + 1)
    ELSE [r EXCEPT !.pc = "cold_read"]
after_hot_tasks(q, r, res, order) ==
    IF res.kind = "Ok" /\ res.flushing # {}
    THEN Append(q, NewTask(r.req.series, order))
    ELSE q

(***************************************************************************)
(* The steps of batch_ingest / write_chunk for process c.                  *)
(***************************************************************************)
\* a request arrives: validate, check_type, the first partition
Begin(c, req) ==
    /\ rec.pc = "serving"
    /\ cl[c].pc = "idle"
    /\ cl' = [cl EXCEPT ![c] = batch_ingest_begin(Len(obs.reqs) + 1, req, validate(req))]
    /\ obs' = [obs EXCEPT !.reqs = Append(@,
                 [req |-> req, state |-> "run", cold |-> None,
                  before |-> {i \in DOMAIN obs.reqs : obs.reqs[i].state = "Ok"}])]
    /\ UNCHANGED <<hot, lock, txid, walDir, wal, objects, catalog, tasks, rec>>

\* tx_id = next_txid()
AllocTx(c) ==
    /\ cl[c].pc = "alloc"
    /\ cl' = [cl EXCEPT ![c].pc = "wal", ![c].tx = txid]
    /\ txid' = txid + 1
    /\ UNCHANGED <<hot, lock, walDir, wal, objects, catalog, tasks, rec, obs>>

\* the WRITE record is appended (under the WAL mutex); a failure propagates
WalWrite(c, fault) ==
    /\ cl[c].pc = "wal"
    /\ FaultApplies(wal, from_write_batch(cur_batch(cl[c])), fault)
    /\ LET r == write_entry(wal, walDir, from_write_batch(cur_batch(cl[c])), fault)
       IN /\ wal' = r.w
          /\ walDir' = r.dir
          /\ cl' = [cl EXCEPT ![c] = IF r.ok THEN [@ EXCEPT !.pc = "hot"]
                                     ELSE ClientRet(@, "Internal")]
    /\ UNCHANGED <<hot, lock, txid, objects, catalog, tasks, rec, obs>>

HotTry_extra(c) ==
    /\ cl[c].pc = "hot"
    /\ IF lock # None
       THEN /\ cl' = [cl EXCEPT ![c] =
                        IF @.attempt + 1 > MAX_RETRIES
                        THEN [ClientIdle EXCEPT !.pc = "ret", !.rid = cl[c].rid,
                                                !.req = cl[c].req,
                                                !.status = "ResourceLocked"]
                        ELSE [@ EXCEPT !.attempt = @ + 1]]
            /\ lock' = lock
       ELSE IF cl[c].req.series \notin DOMAIN hot
       THEN /\ cl' = [cl EXCEPT ![c].pc = "absent"]
            /\ lock' = lock
       ELSE /\ cl' = [cl EXCEPT ![c].pc = "locked"]
            /\ lock' = Some(c)
    /\ UNCHANGED <<hot, txid, walDir, wal, objects, catalog, tasks, rec, obs>>
\* HotSet::write, try_get_mut: Locked -> Busy (retry after a yield, up to
\* MAX_RETRIES attempts), Absent, or Present with the slot locked
HotTry(c) ==
    /\ cl[c].pc = "hot"
    /\ IF lock # None
       THEN /\ cl' = [cl EXCEPT ![c] =
                        IF @.attempt + 1 >= MAX_RETRIES
                        THEN ClientRet(@, "ResourceLocked")
                        ELSE [@ EXCEPT !.attempt = @ + 1]]
            /\ lock' = lock
       ELSE IF cl[c].req.series \notin DOMAIN hot
       THEN /\ cl' = [cl EXCEPT ![c].pc = "absent"]
            /\ lock' = lock
       ELSE /\ cl' = [cl EXCEPT ![c].pc = "locked"]
            /\ lock' = Some(c)
    /\ UNCHANGED <<hot, txid, walDir, wal, objects, catalog, tasks, rec, obs>>

\* hot.write returned r.res and left r.hd in the map; write_chunk goes on
HotApply(c, r) ==
    /\ hot' = MapPut(hot, cl[c].req.series, r.hd)
    /\ cl' = [cl EXCEPT ![c] = after_hot_client(@, r.res)]
    /\ \E order \in Orders(IF r.res.kind = "Ok" THEN r.res.flushing ELSE {}) :
          tasks' = after_hot_tasks(tasks, cl[c], r.res, order)

\* HotSet::write, Present: write_into_block on the slot, the guard dropped
HotWrite(c) ==
    /\ cl[c].pc = "locked"
    /\ HotApply(c, write_into_block(hot[cl[c].req.series], cur_batch(cl[c])))
    /\ lock' = None
    /\ UNCHANGED <<txid, walDir, wal, objects, catalog, rec, obs>>

\* HotSet::write, Absent: a default slot is written and inserted, replacing
\* whatever the map holds for the series by then
HotInsert(c) ==
    /\ cl[c].pc = "absent"
    /\ lock = None
    /\ HotApply(c, write_into_block(HotDataDefault, cur_batch(cl[c])))
    /\ UNCHANGED <<lock, txid, walDir, wal, objects, catalog, rec, obs>>

\* the offsets at which the cold block of the batch holds a sample
held_offsets(cat, objs, batch) ==
    IF read_block_from_storage(cat, objs, batch.series, batch.block_id).ok
    THEN {k \in 0..(get_block_length(SeriesMetaOf(batch.series)) - 1) :
            ~is_missing(read_block_from_storage(cat, objs, batch.series,
                                                batch.block_id).block.qs[k + 1])}
    ELSE {}

\* write_cold: the block is read (or created) and the batch written to it
ColdRead(c) ==
    /\ cl[c].pc = "cold_read"
    /\ cl' = [cl EXCEPT ![c].pc = "cold_put",
                        ![c].blk = Some(write_cold_block(catalog, objects, cur_batch(cl[c])))]
    /\ obs' = IF cl[c].rid \in DOMAIN obs.reqs
              THEN [obs EXCEPT !.reqs[cl[c].rid].cold =
                      Some(held_offsets(catalog, objects, cur_batch(cl[c])))]
              ELSE obs
    /\ UNCHANGED <<hot, lock, txid, walDir, wal, objects, catalog, tasks, rec>>

\* write_cold -> flush_block: the object is written
ColdPut(c) ==
    /\ cl[c].pc = "cold_put"
    /\ objects' = flush_block_put(objects, Unwrap(cl[c].blk))
    /\ cl' = [cl EXCEPT ![c].pc = "cold_upsert", ![c].key = new_object_key(objects)]
    /\ UNCHANGED <<hot, lock, txid, walDir, wal, catalog, tasks, rec, obs>>

\* write_cold -> flush_block: the catalog is upserted; the next partition
ColdUpsert(c) ==
    /\ cl[c].pc = "cold_upsert"
    /\ catalog' = upsert(catalog, cl[c].req.series, cl[c].parts[cl[c].pi].block,
                         cl[c].key, Unwrap(cl[c].blk).meta)
    /\ cl' = [cl EXCEPT ![c] = start_partition(@, @.pi + 1)]
    /\ UNCHANGED <<hot, lock, txid, walDir, wal, objects, tasks, rec, obs>>

\* the handler returns its status to the caller
Return(c) ==
    /\ rec.pc = "serving"
    /\ cl[c].pc = "ret"
    /\ cl' = [cl EXCEPT ![c] = ClientIdle]
    /\ obs' = [obs EXCEPT !.reqs[cl[c].rid].state = cl[c].status]
    /\ UNCHANGED <<hot, lock, txid, walDir, wal, objects, catalog, tasks, rec>>

(***************************************************************************)
(* The steps of the background flush task at position i of the task list.  *)
(***************************************************************************)
\* HotSet::take_flushing_block, try_get_mut: Locked and Absent yield None
TaskTry(i) ==
    /\ tasks[i].pc = "take"
    /\ IF lock # None \/ tasks[i].series \notin DOMAIN hot
       THEN /\ tasks' = task_advance(tasks, i)
            /\ lock' = lock
       ELSE /\ tasks' = [tasks EXCEPT ![i].pc = "taking"]
            /\ lock' = Some("task")
    /\ UNCHANGED <<hot, txid, walDir, wal, objects, catalog, cl, rec, obs>>

\* HotData::take_flushing_block on the locked slot
TaskTake(i) ==
    /\ tasks[i].pc = "taking"
    /\ LET s == tasks[i].series
           r == take_flushing_block(hot[s], Head(tasks[i].blocks))
       IN /\ hot' = [hot EXCEPT ![s] = r.hd]
          /\ tasks' = IF IsSome(r.out)
                      THEN [tasks EXCEPT ![i].pc = "put",
                                         ![i].tx = Unwrap(r.out).tx,
                                         ![i].blk = Some(Unwrap(r.out).blk)]
                      ELSE task_advance(tasks, i)
    /\ lock' = None
    /\ UNCHANGED <<txid, walDir, wal, objects, catalog, cl, rec, obs>>

\* flush_block: the object is written
TaskPut(i) ==
    /\ tasks[i].pc = "put"
    /\ objects' = flush_block_put(objects, Unwrap(tasks[i].blk))
    /\ tasks' = [tasks EXCEPT ![i].pc = "upsert", ![i].key = new_object_key(objects)]
    /\ UNCHANGED <<hot, lock, txid, walDir, wal, catalog, cl, rec, obs>>

\* flush_block: the catalog is upserted
TaskUpsert(i) ==
    /\ tasks[i].pc = "upsert"
    /\ catalog' = upsert(catalog, tasks[i].series, Head(tasks[i].blocks),
                         tasks[i].key, Unwrap(tasks[i].blk).meta)
    /\ tasks' = [tasks EXCEPT ![i].pc = "walflush"]
    /\ UNCHANGED <<hot, lock, txid, walDir, wal, objects, cl, rec, obs>>

\* the FLUSH record carrying the tx_high of the block is appended
TaskWalFlush(i) ==
    /\ tasks[i].pc = "walflush"
    /\ LET r == write_entry(wal, walDir,
                            FlushEntry(tasks[i].tx, tasks[i].series, Head(tasks[i].blocks)),
                            NoFault)
       IN /\ wal' = r.w
          /\ walDir' = r.dir
    /\ tasks' = task_advance(tasks, i)
    /\ UNCHANGED <<hot, lock, txid, objects, catalog, cl, rec, obs>>

(***************************************************************************)
(* Spec: the serving process.  One or two client connections send          *)
(* single-sample requests for the one series; the value of a request is    *)
(* its arrival number, so that the writer of every stored sample is known. *)
(*   obs.reqs  the requests in arrival order: the request, its state       *)
(*             ("run", or the status returned), and `before`, the requests *)
(*             that had returned Ok when it arrived                        *)
(***************************************************************************)
Clients == {"c1", "c2"}
ClientNo(c) == IF c = "c1" THEN 1 ELSE 2
\* the requests the run receives
Budget == IF Cardinality(DOMAIN cl) = 1 THEN MaxReq ELSE MaxConcReq
Timestamps == 0..MaxTs

SampleRequest(rid, ts) ==
    Request(1, ts, [i \in 1..Len(ts) |-> rid], [i \in 1..Len(ts) |-> GOOD], "Enum")
Requests(rid) == {SampleRequest(rid, <<t>>) : t \in Timestamps}

Init ==
    /\ hot = EmptyMap
    /\ lock = None
    /\ txid = 0
    /\ walDir = EmptyMap
    /\ wal = WalNew
    /\ objects = EmptyMap
    /\ catalog = EmptyMap
    /\ \E n \in 1..Cardinality(Clients) :
          cl = [c \in {x \in Clients : ClientNo(x) <= n} |-> ClientIdle]
    /\ tasks = <<>>
    /\ rec = [pc |-> "serving"]
    /\ obs = [reqs |-> <<>>]

Arrive(c) ==
    /\ Len(obs.reqs) < Budget
    /\ \E req \in Requests(Len(obs.reqs) + 1) : Begin(c, req)

Next ==
    \/ \E c \in DOMAIN cl : Arrive(c)
    \/ \E c \in DOMAIN cl : AllocTx(c)
    \/ \E c \in DOMAIN cl : \E fault \in Faults : WalWrite(c, fault)
    \/ \E c \in DOMAIN cl : HotTry(c)
    \/ \E c \in DOMAIN cl : HotWrite(c)
    \/ \E c \in DOMAIN cl : HotInsert(c)
    \/ \E c \in DOMAIN cl : ColdRead(c)
    \/ \E c \in DOMAIN cl : ColdPut(c)
    \/ \E c \in DOMAIN cl : ColdUpsert(c)
    \/ \E c \in DOMAIN cl : Return(c)
    \/ \E i \in DOMAIN tasks : TaskTry(i)
    \/ \E i \in DOMAIN tasks : TaskTake(i)
    \/ \E i \in DOMAIN tasks : TaskPut(i)
    \/ \E i \in DOMAIN tasks : TaskUpsert(i)
    \/ \E i \in DOMAIN tasks : TaskWalFlush(i)

Spec == Init /\ [][Next]_vars

(***************************************************************************)
(* What a reader sees.                                                     *)
(***************************************************************************)
BlockOfTs(s, t) == get_block_id(SeriesMetaOf(s), t)
OffsetOfTs(s, t) ==
    get_sample_offset(SeriesMetaOf(s),
                      t - get_block_start_as_offset(SeriesMetaOf(s), BlockOfTs(s, t)))
SampleAt(blk, k) == [v |-> blk.vals[k + 1], q |-> blk.qs[k + 1]]
NoSample == [v |-> 0, q |-> MISSING]

InLive(s, b) ==
    s \in DOMAIN hot /\ IsSome(hot[s].live) /\ hot[s].live_id = Some(b)
InFlushing(s, b) == s \in DOMAIN hot /\ b \in DOMAIN hot[s].flushing
InCold(s, b) == <<s, b>> \in DOMAIN catalog

\* read_block(series, block): the cold block the catalog names
ColdSample(s, t) ==
    IF InCold(s, BlockOfTs(s, t))
    THEN SampleAt(read_block_from_storage(catalog, objects, s, BlockOfTs(s, t)).block,
                  OffsetOfTs(s, t))
    ELSE NoSample

\* the sample of timestamp t in the hot block while the block is hot,
\* otherwise in the cold block
VisibleSample(s, t) ==
    IF InLive(s, BlockOfTs(s, t))
    THEN SampleAt(Unwrap(hot[s].live).blk, OffsetOfTs(s, t))
    ELSE IF InFlushing(s, BlockOfTs(s, t))
    THEN SampleAt(hot[s].flushing[BlockOfTs(s, t)].blk, OffsetOfTs(s, t))
    ELSE ColdSample(s, t)

\* a sample written for timestamp t is stored in the live block, in a
\* flushing block or in the cold block
StoredSample(s, t) ==
    \/ InLive(s, BlockOfTs(s, t))
         /\ ~is_missing(SampleAt(Unwrap(hot[s].live).blk, OffsetOfTs(s, t)).q)
    \/ InFlushing(s, BlockOfTs(s, t))
         /\ ~is_missing(SampleAt(hot[s].flushing[BlockOfTs(s, t)].blk, OffsetOfTs(s, t)).q)
    \/ ~is_missing(ColdSample(s, t).q)

\* the requests that wrote (or are writing) timestamp t, the acknowledged ones
Writers(t) == {i \in DOMAIN obs.reqs : \E j \in DOMAIN obs.reqs[i].req.ts :
                                          obs.reqs[i].req.ts[j] = t}
AckedWriters(t) == {i \in Writers(t) : obs.reqs[i].state = "Ok"}
\* a writer of t is superseded when an acknowledged write of t arrived after
\* it had returned
Superseded(t) == {i \in Writers(t) : \E j \in AckedWriters(t) : i \in obs.reqs[j].before}

Quiescent == tasks = <<>> /\ \A c \in DOMAIN cl : cl[c].pc = "idle"

\* a whole frame whose payload decodes to entry e was appended to a WAL file
WalAppended(e) ==
    \E f \in DOMAIN walDir : \E k \in DOMAIN walDir[f] :
        /\ IsWhole(walDir[f][k])
        /\ entry_read(walDir[f][k].frame.payload).ok
        /\ entry_read(walDir[f][k].frame.payload).entry = e

\* iterating the files of the WAL directory yields a frame that decodes to e
WalHolds(e) ==
    \E f \in DOMAIN walDir : \E k \in DOMAIN frame_iterator(walDir[f]) :
        /\ frame_iterator(walDir[f])[k].ok
        /\ entry_read(frame_iterator(walDir[f])[k].frame.payload).ok
        /\ entry_read(frame_iterator(walDir[f])[k].frame.payload).entry = e

(***************************************************************************)
(* Claims about the serving process (Spec).                                *)
(***************************************************************************)
\* C1 (acknowledgement contract): whenever batch_ingest returns success for a
\* batch, every sample of the batch is at that moment stored at its offset in
\* the live block or a flushing block of its series, or in the cold block the
\* catalog maps (series, block) to.
C1_AckContract ==
    [][\A c \in DOMAIN cl :
          (cl[c].pc = "ret" /\ cl[c].status = "Ok" /\ cl'[c].pc = "idle")
              => \A j \in DOMAIN cl[c].req.ts :
                    StoredSample(cl[c].req.series, cl[c].req.ts[j])]_vars

\* C1: a handler about to return success while a sample of its batch is in
\* no hot block and in no cold block.
C1_ReturnWithoutSample ==
    \E c \in DOMAIN cl :
        /\ cl[c].pc = "ret" /\ cl[c].status = "Ok"
        /\ \E j \in DOMAIN cl[c].req.ts :
              ~StoredSample(cl[c].req.series, cl[c].req.ts[j])

C4_LastWriteWins ==
    Quiescent =>
        \A t \in Timestamps :
            AckedWriters(t) # {} =>
                /\ VisibleSample(1, t).q = GOOD
                /\ VisibleSample(1, t).v \in Writers(t) \ Superseded(t)

\* C4: at quiescence the visible sample is the one of an acknowledged write
\* that returned before a later acknowledged write of the timestamp arrived.
C4_StaleSampleVisible ==
    /\ Quiescent
    /\ \E t \in Timestamps :
          /\ VisibleSample(1, t).q = GOOD
          /\ VisibleSample(1, t).v \in AckedWriters(t) \cap Superseded(t)

\* C9 (backfill routing): a write goes through the cold path only while the
\* live block of its series is a later block, and once it has returned
\* success, read_block returns a block that holds a sample of the write (or
\* of a later request) at its offset and a sample at every offset the cold
\* block held before the write.
C9_BackfillRouting ==
    /\ \A c \in DOMAIN cl :
          cl[c].pc \in {"cold_read", "cold_put", "cold_upsert"}
              => /\ cl[c].req.series \in DOMAIN hot
                 /\ IsSome(hot[cl[c].req.series].live_id)
                 /\ Unwrap(hot[cl[c].req.series].live_id) > cl[c].parts[cl[c].pi].block
    /\ \A i \in DOMAIN obs.reqs :
          (obs.reqs[i].state = "Ok" /\ IsSome(obs.reqs[i].cold))
              => \A j \in DOMAIN obs.reqs[i].req.ts :
                    /\ ColdSample(1, obs.reqs[i].req.ts[j]).q = GOOD
                    /\ ColdSample(1, obs.reqs[i].req.ts[j]).v >= i
                    /\ \A k \in Unwrap(obs.reqs[i].cold) :
                          ~is_missing(read_block_from_storage(catalog, objects, 1,
                                BlockOfTs(1, obs.reqs[i].req.ts[j])).block.qs[k + 1])

\* C9: a backfill write returned success and the cold block read afterwards
\* does not hold its sample.
C9_BackfillSampleGone ==
    \E i \in DOMAIN obs.reqs :
        /\ obs.reqs[i].state = "Ok" /\ IsSome(obs.reqs[i].cold)
        /\ \E j \in DOMAIN obs.reqs[i].req.ts :
              is_missing(ColdSample(1, obs.reqs[i].req.ts[j]).q)

(***************************************************************************)
(* SpecValidate: one client connection sends one request whose three       *)
(* vectors have any lengths up to MaxLen and whose value variant may not   *)
(* match the series.                                                       *)
(***************************************************************************)
SeqsUpTo(S, n) == UNION {[1..k -> S] : k \in 0..n}
ValTimestamps == {0, MaxTs}
ValRequests(rid) ==
    {Request(1, ts, [i \in 1..lv |-> rid], [i \in 1..lq |-> GOOD], vt) :
        ts \in SeqsUpTo(ValTimestamps, MaxLen), lv \in 0..MaxLen, lq \in 0..MaxLen,
        vt \in {"Enum", "F32"}}

InitValidate == Init /\ DOMAIN cl = {"c1"}

ArriveAny(c) ==
    /\ Len(obs.reqs) < MaxValReq
    /\ \E req \in ValRequests(Len(obs.reqs) + 1) : Begin(c, req)

NextValidate ==
    \/ \E c \in DOMAIN cl : ArriveAny(c)
    \/ \E c \in DOMAIN cl : AllocTx(c)
    \/ \E c \in DOMAIN cl : WalWrite(c, NoFault)
    \/ \E c \in DOMAIN cl : HotTry(c)
    \/ \E c \in DOMAIN cl : HotWrite(c)
    \/ \E c \in DOMAIN cl : HotInsert(c)
    \/ \E c \in DOMAIN cl : Return(c)
    \/ \E i \in DOMAIN tasks : TaskTry(i)
    \/ \E i \in DOMAIN tasks : TaskTake(i)
    \/ \E i \in DOMAIN tasks : TaskPut(i)
    \/ \E i \in DOMAIN tasks : TaskUpsert(i)
    \/ \E i \in DOMAIN tasks : TaskWalFlush(i)

SpecValidate == InitValidate /\ [][NextValidate]_vars

LengthsDiffer(req) == ~(Len(req.ts) = Len(req.vals) /\ Len(req.vals) = Len(req.qs))
NothingWritten ==
    /\ walDir = EmptyMap /\ hot = EmptyMap /\ objects = EmptyMap /\ catalog = EmptyMap

\* C10 (length validation): a request whose ts, qs and vals are not all of
\* the same length is rejected with BadRequest, and nothing is written to the
\* WAL, the hot set or the cold store.
C10_LengthValidation ==
    \A i \in DOMAIN obs.reqs :
        LengthsDiffer(obs.reqs[i].req) =>
            /\ obs.reqs[i].state \in {"run", "BadRequest"}
            /\ \A c \in DOMAIN cl :
                  cl[c].rid = i => (cl[c].pc = "ret" /\ cl[c].status = "BadRequest")
            /\ NothingWritten

\* C10: a request with one timestamp, two values and one quality returned
\* success and its sample is in the hot set.
C10_MismatchAccepted ==
    \E i \in DOMAIN obs.reqs :
        /\ LengthsDiffer(obs.reqs[i].req)
        /\ obs.reqs[i].state = "Ok"
        /\ hot # EmptyMap

(***************************************************************************)
(* SpecHot: the hot set driven directly, one call at a time: HotSet::write *)
(* with batches of up to two samples of blocks 0..MaxHotBlock,             *)
(* HotSet::take_flushing_block and HotSet::take_all_blocks.                *)
(*   obs.n     the calls made                                              *)
(*   obs.last  the last call: its kind, its batch, the slot it found       *)
(*             (pre) and what it returned (res)                            *)
(***************************************************************************)
\* HotSet::write without contention: Present or Absent
HotSet_write(h, batch) ==
    IF batch.series \in DOMAIN h
    THEN write_into_block(h[batch.series], batch)
    ELSE write_into_block(HotDataDefault, batch)

\* HotSet::take_flushing_block without contention
HotSet_take_flushing_block(h, s, b) ==
    IF s \in DOMAIN h THEN take_flushing_block(h[s], b)
    ELSE [hd |-> HotDataDefault, out |-> None]

\* take_all_blocks: flush_live unwraps the live block of every slot
take_all_panics(h) == \E s \in DOMAIN h : h[s].live = None
take_all_slot(hd) == [hd EXCEPT !.live = None, !.flushing = EmptyMap]
take_all_hot(h) == [s \in DOMAIN h |-> take_all_slot(h[s])]
take_all_entries(s, hd) ==
    {[series |-> s, tx |-> hd.flushing[b].tx, block |-> b, blk |-> hd.flushing[b].blk] :
        b \in DOMAIN hd.flushing}
take_all_buff(h) == UNION {take_all_entries(s, flush_live(h[s])) : s \in DOMAIN h}

HotSampleSets(b) ==
    {<<2 * b>>, <<2 * b + 1>>, <<2 * b, 2 * b + 1>>}
HotBatch(n, b, ts, tx) ==
    WriteBatch(1, b, ts, [i \in 1..Len(ts) |-> n], [i \in 1..Len(ts) |-> GOOD], tx)
HotBatchesOf(n, b) == {HotBatch(n, b, ts, tx) : ts \in HotSampleSets(b), tx \in 0..MaxHotTx}
HotBatches(n) == UNION {HotBatchesOf(n, b) : b \in 0..MaxHotBlock}

NoCall == [kind |-> "none", batch |-> None, pre |-> None, res |-> None]

InitHot ==
    /\ hot = EmptyMap
    /\ lock = None
    /\ txid = 0
    /\ walDir = EmptyMap
    /\ wal = WalNew
    /\ objects = EmptyMap
    /\ catalog = EmptyMap
    /\ cl = EmptyMap
    /\ tasks = <<>>
    /\ rec = [pc |-> "hot"]
    /\ obs = [n |-> 0, last |-> NoCall]

HotCalled(kind, batch, pre, res) ==
    obs' = [n |-> obs.n + 1,
            last |-> [kind |-> kind, batch |-> batch, pre |-> pre, res |-> res]]

HotOpApply(batch, r) ==
    /\ hot' = MapPut(hot, batch.series, r.hd)
    /\ HotCalled("write", Some(batch),
                 IF batch.series \in DOMAIN hot THEN Some(hot[batch.series]) ELSE None,
                 Some(r.res))

HotOpWrite(batch) ==
    /\ obs.n < MaxHotOps
    /\ HotOpApply(batch, HotSet_write(hot, batch))
    /\ UNCHANGED <<lock, txid, walDir, wal, objects, catalog, cl, tasks, rec>>

HotOpTook(s, r) ==
    /\ hot' = IF s \in DOMAIN hot THEN MapPut(hot, s, r.hd) ELSE hot
    /\ HotCalled("take", None, None, Some(r.out))

HotOpTake(s, b) ==
    /\ obs.n < MaxHotOps
    /\ HotOpTook(s, HotSet_take_flushing_block(hot, s, b))
    /\ UNCHANGED <<lock, txid, walDir, wal, objects, catalog, cl, tasks, rec>>

HotOpTakeAll ==
    /\ obs.n < MaxHotOps
    /\ IF take_all_panics(hot)
       THEN /\ hot' = hot
            /\ HotCalled("take_all_panic", None, None, None)
       ELSE /\ hot' = take_all_hot(hot)
            /\ HotCalled("take_all", None, None, Some(take_all_buff(hot)))
    /\ UNCHANGED <<lock, txid, walDir, wal, objects, catalog, cl, tasks, rec>>

NextHot ==
    \/ \E batch \in HotBatches(obs.n + 1) : HotOpWrite(batch)
    \/ \E s \in Series : \E b \in 0..MaxHotBlock : HotOpTake(s, b)
    \/ HotOpTakeAll

SpecHot == InitHot /\ [][NextHot]_vars

\* the last call was a write of block N' that found block N < N' live
Rotated ==
    /\ obs.last.kind = "write"
    /\ IsSome(obs.last.pre)
    /\ IsSome(Unwrap(obs.last.pre).live)
    /\ Unwrap(Unwrap(obs.last.pre).live_id) < Unwrap(obs.last.batch).block_id

\* the samples of the batch on a zero-valued, all-MISSING block
OnlySamplesOf(blk, batch) ==
    LET len == get_block_length(SeriesMetaOf(batch.series))
        at(k) == {i \in DOMAIN batch.ts : batch.ts[i] = 2 * batch.block_id + k}
    IN /\ Len(blk.vals) = len /\ Len(blk.qs) = len
       /\ \A k \in 0..(len - 1) :
             IF at(k) = {} THEN blk.vals[k + 1] = 0 /\ blk.qs[k + 1] = MISSING
             ELSE \E i \in at(k) : blk.vals[k + 1] = batch.vals[i]
                                   /\ blk.qs[k + 1] = batch.qs[i]

RotationResult(pre, post, batch, res) ==
    /\ Unwrap(pre.live_id) \in DOMAIN post.flushing
    /\ post.flushing[Unwrap(pre.live_id)] = Unwrap(pre.live)
    /\ \A b \in DOMAIN pre.flushing :
          b # Unwrap(pre.live_id) =>
             b \in DOMAIN post.flushing /\ post.flushing[b] = pre.flushing[b]
    /\ DOMAIN post.flushing = DOMAIN pre.flushing \cup {Unwrap(pre.live_id)}
    /\ post.live_id = Some(batch.block_id)
    /\ IsSome(post.live)
    /\ OnlySamplesOf(Unwrap(post.live).blk, batch)
    /\ res.kind = "Ok"
    /\ Unwrap(pre.live_id) \in res.flushing

\* C8 (hot-set rotation): when the live block of a series is N and a write
\* for a block N' > N is applied, block N is in the flushing map of the
\* series with the contents it had as live block, the live block is N' and
\* holds exactly the samples of the write on a zero-valued, all-MISSING block
\* of the block length, and the flushing list returned contains N.
C8_HotSetRotation ==
    Rotated =>
        RotationResult(Unwrap(obs.last.pre), hot[Unwrap(obs.last.batch).series],
                       Unwrap(obs.last.batch), Unwrap(obs.last.res))

\* C8: a rotation happened while an earlier rotated block was still in the
\* flushing map
C8_RotatedWithPending ==
    /\ Rotated
    /\ Unwrap(obs.last.pre).flushing # EmptyMap
    /\ Cardinality(DOMAIN hot[1].flushing) = 2

(***************************************************************************)
(* SpecWal: the WAL writer and the recovery scan on their own.  A process  *)
(* appends up to MaxAppends records (WRITE records with consecutive tx     *)
(* ids, FLUSH records for the tx of an acknowledged WRITE) under the       *)
(* faults of the operating system, is killed, and the directory is         *)
(* scanned with the files in the order read_dir happens to yield.          *)
(*   obs.acked    the records whose write_entry returned Ok                *)
(*   obs.scan     the result of find_wal_to_recover after the kill         *)
(***************************************************************************)
InitWal ==
    /\ hot = EmptyMap
    /\ lock = None
    /\ txid = 0
    /\ walDir = EmptyMap
    /\ wal = WalNew
    /\ objects = EmptyMap
    /\ catalog = EmptyMap
    /\ cl = EmptyMap
    /\ tasks = <<>>
    /\ rec = [pc |-> "up"]
    /\ obs = [n |-> 0, acked |-> {}, scan |-> None]

WalAppendApply(e, r) ==
    /\ wal' = r.w
    /\ walDir' = r.dir
    /\ obs' = [obs EXCEPT !.n = @ + 1,
                          !.acked = IF r.ok THEN @ \cup {e} ELSE @]

WalAppend(e, fault) ==
    /\ rec.pc = "up"
    /\ obs.n < MaxAppends
    /\ FaultApplies(wal, e, fault)
    /\ WalAppendApply(e, write_entry(wal, walDir, e, fault))

\* a WRITE record of one sample with the next tx id
WalAppendWrite(b, fault) ==
    /\ WalAppend(WriteEntry(txid, 1, b, <<2 * b>>, <<txid + 1>>, <<GOOD>>), fault)
    /\ txid' = txid + 1
    /\ UNCHANGED <<hot, lock, objects, catalog, cl, tasks, rec>>

\* a FLUSH record for an acknowledged WRITE that has none yet
WalAppendFlush(w, fault) ==
    /\ w.tag = TAG_WRITE
    /\ \A e \in obs.acked : ~(e.tag = TAG_FLUSH /\ e.tx = w.tx)
    /\ WalAppend(FlushEntry(w.tx, w.series, w.block), fault)
    /\ UNCHANGED <<hot, lock, txid, objects, catalog, cl, tasks, rec>>

\* the process is killed; the files stay as they are
WalKill ==
    /\ rec.pc = "up"
    /\ rec' = [pc |-> "down"]
    /\ wal' = WalNew
    /\ UNCHANGED <<hot, lock, txid, walDir, objects, catalog, cl, tasks, obs>>

\* the restarted process scans the directory
WalScan(order) ==
    /\ rec.pc = "down"
    /\ rec' = [pc |-> "scanned"]
    /\ obs' = [obs EXCEPT !.scan = Some(find_wal_to_recover(walDir, order))]
    /\ UNCHANGED <<hot, lock, txid, walDir, wal, objects, catalog, cl, tasks>>

NextWal ==
    \/ \E b \in 0..1 : \E fault \in Faults : WalAppendWrite(b, fault)
    \/ \E w \in obs.acked : \E fault \in Faults : WalAppendFlush(w, fault)
    \/ WalKill
    \/ \E order \in Orders(DOMAIN walDir) : WalScan(order)

SpecWal == InitWal /\ [][NextWal]_vars

\* C3 (WAL durability): a record whose write_entry returned Ok is found by
\* iterating the frames of the files of the WAL directory, before and after
\* a kill, whatever was appended before it.
C3_WalDurability == \A e \in obs.acked : WalHolds(e)

\* C3: an acknowledged record sits behind the torn frame of a failed append
\* and the iterator does not yield it
C3_AckedBehindTornFrame ==
    \E e \in obs.acked :
        /\ ~WalHolds(e)
        /\ WalAppended(e)
        /\ rec.pc = "down"

\* the tx ids that have a WRITE frame and a FLUSH frame in the directory
FrameTagged(x, tag) ==
    /\ IsWhole(x)
    /\ entry_read(x.frame.payload).ok
    /\ entry_read(x.frame.payload).entry.tag = tag
FileFramesOf(file, tag) ==
    {entry_read(file[k].frame.payload).entry.tx :
        k \in {j \in DOMAIN file : FrameTagged(file[j], tag)}}
FramesOf(tag) == UNION {FileFramesOf(walDir[f], tag) : f \in DOMAIN walDir}
WrittenAndFlushed == FramesOf(TAG_WRITE) \cap FramesOf(TAG_FLUSH)

\* C5 (FLUSH elides WRITE): a tx id with both a WRITE frame and a FLUSH frame
\* in the directory, in one file or in two, is not returned by the recovery
\* scan.
C5_FlushElidesWrite ==
    (rec.pc = "scanned" /\ Unwrap(obs.scan).ok) =>
        \A tx \in WrittenAndFlushed : tx \notin DOMAIN Unwrap(obs.scan).todo

\* C5: the scan read the file with the FLUSH before the file with the WRITE
\* and returned the tx id
C5_FlushedTxReturned ==
    /\ rec.pc = "scanned"
    /\ Unwrap(obs.scan).ok
    /\ \E tx \in WrittenAndFlushed : tx \in DOMAIN Unwrap(obs.scan).todo

(***************************************************************************)
(* SpecRecovery: the start of the process (main.rs).  The WAL directory    *)
(* found at the start holds up to MaxWalWrites WRITE records of one sample *)
(* each, written by an earlier process that was killed before any block    *)
(* was flushed; the cold store is empty.  The main task scans, replays     *)
(* every surviving record through write_chunk, force-flushes the hot set   *)
(* and removes the WAL files, while the flush tasks spawned by rotations   *)
(* run beside it.  The process may be killed once between force_flush and  *)
(* cleanup_wal_files and started again.                                    *)
(*   rec.todo, rec.k   the surviving frames in tx order, the next one      *)
(*   rec.buff, rec.key the blocks taken by force_flush, the object key     *)
(*   obs.wal0       the directory at the first start                       *)
(*   obs.survivors  the records the scan of this run returned              *)
(*   obs.first      the cold store the first run left (when it ended with  *)
(*                  no task running and the directory as it was)           *)
(***************************************************************************)
RECURSIVE WalAfter(_, _, _, _)
WalAfterStep(r, entries, i) == WalAfter(r.w, r.dir, entries, i)
WalAfter(w, dir, entries, i) ==
    IF i > Len(entries) THEN dir
    ELSE WalAfterStep(write_entry(w, dir, entries[i], NoFault), entries, i + 1)

RecEntries(t) ==
    [i \in DOMAIN t |-> WriteEntry(i - 1, 1, get_block_id(SeriesMetaOf(1), t[i]),
                                   <<t[i]>>, <<i>>, <<GOOD>>)]
RecDirectories ==
    {WalAfter(WalNew, EmptyMap, RecEntries(t), 1) : t \in SeqsUpTo(Timestamps, MaxWalWrites)}

RecStart(crash) ==
    [pc |-> "scan", todo |-> <<>>, k |-> 0, buff |-> <<>>, key |-> 0, crash |-> crash]

\* the cold store as a reader sees it: per (series, block) of the catalog the
\* statistics and the block the row points to, the object keys left out
ColdView ==
    [sb \in DOMAIN catalog |->
        [meta |-> [catalog[sb].meta EXCEPT !.object_key = 0],
         vals |-> objects[catalog[sb].object_key].vals,
         qs |-> objects[catalog[sb].object_key].qs]]

InitRecovery ==
    /\ hot = EmptyMap
    /\ lock = None
    /\ txid = 0
    /\ walDir \in RecDirectories
    /\ wal = WalNew
    /\ objects = EmptyMap
    /\ catalog = EmptyMap
    /\ cl = [c \in {"main"} |-> ClientIdle]
    /\ tasks = <<>>
    /\ rec = RecStart(0)
    /\ obs = [reqs |-> <<>>, wal0 |-> walDir, survivors |-> {}, first |-> None]

\* find_wal_to_recover returned r
RecScanned(r) ==
    /\ rec' = IF r.ok THEN [rec EXCEPT !.pc = "replay", !.todo = todo_in_order(r.todo),
                                       !.k = 1]
              ELSE [rec EXCEPT !.pc = "failed"]
    /\ obs' = [obs EXCEPT !.survivors =
                 IF r.ok THEN {entry_read(r.todo[tx].payload).entry : tx \in DOMAIN r.todo}
                 ELSE {}]

RecScan(order) ==
    /\ rec.pc = "scan"
    /\ RecScanned(find_wal_to_recover(walDir, order))
    /\ UNCHANGED <<hot, lock, txid, walDir, wal, objects, catalog, cl, tasks>>

\* replay_entry: the batch of the record goes to write_chunk
replay_entry(e) ==
    [ClientIdle EXCEPT !.pc = "hot",
                       !.req = Request(e.series, e.ts, e.vals, e.qs, "Enum"),
                       !.parts = <<[block |-> e.block, lo |-> 1, hi |-> Len(e.ts)]>>,
                       !.pi = 1, !.tx = e.tx]

RecReplayNext ==
    /\ rec.pc = "replay"
    /\ cl["main"].pc = "idle"
    /\ rec.k <= Len(rec.todo)
    /\ cl' = [cl EXCEPT !["main"] = replay_entry(entry_read(rec.todo[rec.k].payload).entry)]
    /\ UNCHANGED <<hot, lock, txid, walDir, wal, objects, catalog, tasks, rec, obs>>

RecReplayDone_ignore ==
    /\ rec.pc = "replay"
    /\ cl["main"].pc = "ret"
    /\ cl' = [cl EXCEPT !["main"] = ClientIdle]
    /\ rec' = [rec EXCEPT !.k = @ + 1]
    /\ UNCHANGED <<hot, lock, txid, walDir, wal, objects, catalog, tasks, obs>>
\* write_chunk returned: the next frame, or the error ends the start
RecReplayDone ==
    /\ rec.pc = "replay"
    /\ cl["main"].pc = "ret"
    /\ cl' = [cl EXCEPT !["main"] = ClientIdle]
    /\ rec' = IF cl["main"].status = "Ok" THEN [rec EXCEPT !.k = @ + 1]
              ELSE [rec EXCEPT !.pc = "failed"]
    /\ UNCHANGED <<hot, lock, txid, walDir, wal, objects, catalog, tasks, obs>>

\* force_flush: take_all_blocks, the blocks in the order of the two hash maps
RecTakeAll ==
    /\ rec.pc = "replay"
    /\ cl["main"].pc = "idle"
    /\ rec.k > Len(rec.todo)
    /\ lock = None
    /\ IF take_all_panics(hot)
       THEN /\ rec' = [rec EXCEPT !.pc = "failed"]
            /\ hot' = hot
       ELSE /\ hot' = take_all_hot(hot)
            /\ \E order \in Orders(take_all_buff(hot)) :
                  rec' = [rec EXCEPT !.pc = "flush", !.buff = order]
    /\ UNCHANGED <<lock, txid, walDir, wal, objects, catalog, cl, tasks, obs>>

\* force_flush -> flush_block: the object is written
RecFlushPut ==
    /\ rec.pc = "flush"
    /\ rec.buff # <<>>
    /\ objects' = flush_block_put(objects, Head(rec.buff).blk)
    /\ rec' = [rec EXCEPT !.pc = "flush_upsert", !.key = new_object_key(objects)]
    /\ UNCHANGED <<hot, lock, txid, walDir, wal, catalog, cl, tasks, obs>>

\* force_flush -> flush_block: the catalog is upserted
RecFlushUpsert ==
    /\ rec.pc = "flush_upsert"
    /\ catalog' = upsert(catalog, Head(rec.buff).series, Head(rec.buff).block,
                         rec.key, Head(rec.buff).blk.meta)
    /\ rec' = [rec EXCEPT !.pc = "flush", !.buff = Tail(@)]
    /\ UNCHANGED <<hot, lock, txid, walDir, wal, objects, cl, tasks, obs>>

\* cleanup_wal_files: every .log file of the directory is removed
RecCleanup ==
    /\ rec.pc = "flush"
    /\ rec.buff = <<>>
    /\ walDir' = EmptyMap
    /\ rec' = [rec EXCEPT !.pc = "done"]
    /\ UNCHANGED <<hot, lock, txid, wal, objects, catalog, cl, tasks, obs>>

\* the process is killed between force_flush and cleanup_wal_files and
\* started again: memory and tasks are gone, the files and the cold store stay
RecKill ==
    /\ rec.pc = "flush"
    /\ rec.buff = <<>>
    /\ rec.crash < MaxCrash
    /\ hot' = EmptyMap
    /\ lock' = None
    /\ wal' = WalNew
    /\ tasks' = <<>>
    /\ rec' = RecStart(rec.crash + 1)
    /\ obs' = [obs EXCEPT !.survivors = {},
                          !.first = IF tasks = <<>> /\ walDir = obs.wal0
                                    THEN Some(ColdView) ELSE None]
    /\ UNCHANGED <<txid, walDir, objects, catalog, cl>>

NextRecovery ==
    \/ \E order \in Orders(DOMAIN walDir) : RecScan(order)
    \/ RecReplayNext
    \/ HotTry("main")
    \/ HotWrite("main")
    \/ HotInsert("main")
    \/ ColdRead("main")
    \/ ColdPut("main")
    \/ ColdUpsert("main")
    \/ RecReplayDone
    \/ RecTakeAll
    \/ RecFlushPut
    \/ RecFlushUpsert
    \/ RecCleanup
    \/ RecKill
    \/ \E i \in DOMAIN tasks : TaskTry(i)
    \/ \E i \in DOMAIN tasks : TaskTake(i)
    \/ \E i \in DOMAIN tasks : TaskPut(i)
    \/ \E i \in DOMAIN tasks : TaskUpsert(i)
    \/ \E i \in DOMAIN tasks : TaskWalFlush(i)

SpecRecovery == InitRecovery /\ [][NextRecovery]_vars

\* the start has completed and no flush task is left
RecoveryCompleted == rec.pc = "done" /\ tasks = <<>>

\* sample i of the surviving record e is overwritten by a surviving record of
\* a higher tx
Overwritten(e, i) ==
    \E e2 \in obs.survivors :
        e2.tx > e.tx /\ e2.series = e.series /\ \E j \in DOMAIN e2.ts : e2.ts[j] = e.ts[i]

Recovered(e, i) == ColdSample(e.series, e.ts[i]) = [v |-> e.vals[i], q |-> e.qs[i]]

\* C6 (unflushed writes are re-applied): once recovery has completed, every
\* sample of every WRITE record that survived the scan is read from the cold
\* store at its offset, unless a surviving WRITE of a higher tx wrote the same
\* offset.
C6_SurvivorsReapplied ==
    RecoveryCompleted =>
        \A e \in obs.survivors : \A i \in DOMAIN e.ts : Overwritten(e, i) \/ Recovered(e, i)

\* C6: the first run completed, and the cold block of a surviving record
\* that nothing overwrote has no sample at its offset
C6_SurvivorSampleMissing ==
    /\ RecoveryCompleted
    /\ rec.crash = 0
    /\ \E e \in obs.survivors : \E i \in DOMAIN e.ts :
          /\ ~Overwritten(e, i)
          /\ is_missing(ColdSample(e.series, e.ts[i]).q)

\* the second run completed on the directory the first run started with
SecondRunCompleted == RecoveryCompleted /\ rec.crash = 1 /\ IsSome(obs.first)

\* C7 (recovery idempotence): a second run of recovery on the same WAL
\* directory, against the cold store the first run left, ends with the same
\* catalog statistics and cold-block contents per (series, block) as the
\* first run, object keys aside.
C7_RecoveryIdempotent == SecondRunCompleted => ColdView = Unwrap(obs.first)

\* C7: the second run ended with a cold block that differs from the one the
\* first run left
C7_SecondRunDiffers ==
    /\ SecondRunCompleted
    /\ \E sb \in DOMAIN ColdView :
          sb \in DOMAIN Unwrap(obs.first) /\ ColdView[sb].vals # Unwrap(obs.first)[sb].vals

(***************************************************************************)
(* Claims about validation (SpecValidate).                                 *)
(***************************************************************************)
\* the batch is empty or its timestamps are not non-decreasing
BadTimestamps(req) ==
    Len(req.ts) = 0 \/ \E i \in 1..(Len(req.ts) - 1) : req.ts[i] > req.ts[i + 1]

\* the request process c is handling before or after the step
StepRequest(c) == IF cl[c].pc = "idle" THEN cl'[c].req ELSE cl[c].req
\* nothing durable or shared changes in the step
NothingPersisted == UNCHANGED <<hot, lock, txid, walDir, wal, objects, catalog, tasks>>

\* every step of the handler of a batch with bad timestamps leaves the WAL,
\* the hot set and the cold store alone, and its first step rejects the batch
\* with one of the statuses given
RejectsBadTimestamps(statuses(_)) ==
    \A c \in DOMAIN cl :
        (cl'[c] # cl[c] /\ BadTimestamps(StepRequest(c))) =>
            /\ NothingPersisted
            /\ cl[c].pc = "idle" => (cl'[c].pc = "ret" /\ cl'[c].status \in statuses(cl'[c].req))

OnlyUnprocessable(req) == {"Unprocessable"}
UnprocessableOrMismatch(req) ==
    {"Unprocessable"} \cup (IF LengthsDiffer(req) THEN {"BadRequest"} ELSE {})

\* C11 (timestamp validation), as stated: a batch that is empty or whose
\* timestamps are not non-decreasing is rejected with Unprocessable before
\* anything is persisted.
C11_TimestampValidation == [][RejectsBadTimestamps(OnlyUnprocessable)]_vars

\* C11, amended: such a batch is rejected before anything is persisted, with
\* Unprocessable, or with BadRequest when its vectors also differ in length
\* (the length test comes first).
C11_TimestampValidationOrLength == [][RejectsBadTimestamps(UnprocessableOrMismatch)]_vars

\* C11: the batch ts = [MaxTs, 0] with one value and one quality per
\* timestamp returned Unprocessable and nothing was written
C11_UnsortedRejected ==
    \E i \in DOMAIN obs.reqs :
        /\ obs.reqs[i].req.ts = <<MaxTs, 0>>
        /\ ~LengthsDiffer(obs.reqs[i].req)
        /\ obs.reqs[i].state = "Unprocessable"
        /\ NothingWritten

(***************************************************************************)
(* SpecBatch: the serving process under failures.  One or two client       *)
(* connections send up to MaxBatchReq batches of one or two partitions     *)
(* (timestamps 0 and MaxTs lie in different blocks); the WAL append, the   *)
(* cold path and the background flush may fail.                            *)
(***************************************************************************)
\* write_cold returns the error of read_block_from_storage (other than
\* NotFound), of the object write or of the catalog upsert
ColdFail(c) ==
    /\ cl[c].pc \in {"cold_read", "cold_put", "cold_upsert"}
    /\ cl' = [cl EXCEPT ![c] = ClientRet(@, "Internal")]
    /\ UNCHANGED <<hot, lock, txid, walDir, wal, objects, catalog, tasks, rec, obs>>

TaskFail_flush(i) ==
    /\ tasks[i].pc \in {"put", "upsert"}
    /\ tasks' = [tasks EXCEPT ![i].pc = "walflush"]
    /\ UNCHANGED <<hot, lock, txid, walDir, wal, objects, catalog, cl, rec, obs>>

\* flush_block returns an error to flush_background (the object write or the
\* catalog upsert failed): nothing is logged as flushed, the loop goes on
TaskFail(i) ==
    /\ tasks[i].pc \in {"put", "upsert"}
    /\ tasks' = task_advance(tasks, i)
    /\ UNCHANGED <<hot, lock, txid, walDir, wal, objects, catalog, cl, rec, obs>>

BatchTimestamps == {<<0>>, <<MaxTs>>, <<0, MaxTs>>}
ArriveBatch(c) ==
    /\ Len(obs.reqs) < MaxBatchReq
    /\ \E ts \in BatchTimestamps : Begin(c, SampleRequest(Len(obs.reqs) + 1, ts))

NextBatch ==
    \/ \E c \in DOMAIN cl : ArriveBatch(c)
    \/ \E c \in DOMAIN cl : AllocTx(c)
    \/ \E c \in DOMAIN cl : \E fault \in Faults : WalWrite(c, fault)
    \/ \E c \in DOMAIN cl : HotTry(c)
    \/ \E c \in DOMAIN cl : HotWrite(c)
    \/ \E c \in DOMAIN cl : HotInsert(c)
    \/ \E c \in DOMAIN cl : ColdRead(c)
    \/ \E c \in DOMAIN cl : ColdPut(c)
    \/ \E c \in DOMAIN cl : ColdUpsert(c)
    \/ \E c \in DOMAIN cl : ColdFail(c)
    \/ \E c \in DOMAIN cl : Return(c)
    \/ \E i \in DOMAIN tasks : TaskTry(i)
    \/ \E i \in DOMAIN tasks : TaskTake(i)
    \/ \E i \in DOMAIN tasks : TaskPut(i)
    \/ \E i \in DOMAIN tasks : TaskUpsert(i)
    \/ \E i \in DOMAIN tasks : TaskWalFlush(i)
    \/ \E i \in DOMAIN tasks : TaskFail(i)

SpecBatch == Init /\ [][NextBatch]_vars

\* the block blk holds sample j of request req
HoldsSample(blk, req, j) ==
    /\ ~is_missing(SampleAt(blk, OffsetOfTs(req.series, req.ts[j])).q)
    /\ SampleAt(blk, OffsetOfTs(req.series, req.ts[j])).v = req.vals[j]
\* a whole WRITE frame of the WAL carries sample j of request req
SampleInWal(req, part, j) ==
    \E f \in DOMAIN walDir : \E k \in DOMAIN walDir[f] :
        /\ IsWhole(walDir[f][k])
        /\ entry_read(walDir[f][k].frame.payload).ok
        /\ entry_read(walDir[f][k].frame.payload).entry.tag = TAG_WRITE
        /\ entry_read(walDir[f][k].frame.payload).entry.block = part.block
        /\ \E n \in DOMAIN entry_read(walDir[f][k].frame.payload).entry.ts :
              /\ entry_read(walDir[f][k].frame.payload).entry.ts[n] = req.ts[j]
              /\ entry_read(walDir[f][k].frame.payload).entry.vals[n] = req.vals[j]
SampleInHot(req, part, j) ==
    \/ InLive(req.series, part.block)
         /\ HoldsSample(Unwrap(hot[req.series].live).blk, req, j)
    \/ InFlushing(req.series, part.block)
         /\ HoldsSample(hot[req.series].flushing[part.block].blk, req, j)
SampleInCold(req, part, j) ==
    /\ InCold(req.series, part.block)
    /\ HoldsSample(read_block_from_storage(catalog, objects, req.series, part.block).block,
                   req, j)
\* some sample of the partition reached the WAL, the hot set or the cold store
PartitionWritten(req, part) ==
    \E j \in part.lo..part.hi :
        SampleInWal(req, part, j) \/ SampleInHot(req, part, j) \/ SampleInCold(req, part, j)
PartitionInHot(req, part) == \A j \in part.lo..part.hi : SampleInHot(req, part, j)
PartitionInCold(req, part) == \A j \in part.lo..part.hi : SampleInCold(req, part, j)

Working == {"alloc", "wal", "hot", "locked", "absent", "cold_read", "cold_put", "cold_upsert"}
LaterUntouched(r) ==
    \A j \in (r.pi + 1)..Len(r.parts) : ~PartitionWritten(r.req, r.parts[j])
\* while a handler works on a partition, nothing of a later one is written
LaterPartitionsUntouched ==
    \A c \in DOMAIN cl : cl[c].pc \in Working => LaterUntouched(cl[c])
\* the step of handler c applies its partition to the hot set or the cold store
AppliesPartition(c) ==
    \E r \in {cl[c]} :
        \/ r.pc \in {"locked", "absent"} /\ PartitionInHot(r.req, r.parts[r.pi])'
        \/ r.pc = "cold_upsert" /\ PartitionInCold(r.req, r.parts[r.pi])'
HandlerStep(c) ==
    /\ cl[c].pc \in Working =>
          \/ cl'[c].pc \in Working /\ cl'[c].rid = cl[c].rid /\ cl'[c].pi = cl[c].pi
          \/ /\ AppliesPartition(c)
             /\ cl'[c].rid = cl[c].rid
             /\ IF cl[c].pi < Len(cl[c].parts)
                THEN cl'[c].pc \in Working /\ cl'[c].pi = cl[c].pi + 1
                ELSE cl'[c].pc = "ret" /\ cl'[c].status = "Ok"
          \/ /\ cl'[c].pc = "ret"
             /\ cl'[c].rid = cl[c].rid
             /\ cl'[c].status \in {"Internal", "ResourceLocked"}
             /\ \E r \in {cl[c]} : LaterUntouched(r)'
    /\ cl[c].pc = "ret" =>
          /\ NothingPersisted
          /\ cl'[c].pc = "idle"
          /\ obs'.reqs[cl[c].rid].state = cl[c].status
FailureEndsBatch == \A c \in DOMAIN cl : cl'[c] # cl[c] => HandlerStep(c)

\* C12: a partition that fails (WAL append, Busy retries exhausted, cold
\* path) ends batch_ingest with an error for the whole batch: the handler
\* moves to the next partition or returns success only by applying the
\* current one, and nothing of a later partition is in the WAL, the hot set
\* or the cold store while it works or when it returns the error
C12_NoPartialAck == [](LaterPartitionsUntouched) /\ [][FailureEndsBatch]_vars

\* a batch of two partitions returned an error after its first partition was
\* logged, and nothing of its second partition was written
C12_SecondPartitionSkipped ==
    \E i \in DOMAIN obs.reqs :
        /\ obs.reqs[i].req.ts = <<0, MaxTs>>
        /\ Len(partition(obs.reqs[i].req)) = 2
        /\ obs.reqs[i].state \in {"Internal", "ResourceLocked"}
        /\ PartitionWritten(obs.reqs[i].req, partition(obs.reqs[i].req)[1])
        /\ ~PartitionWritten(obs.reqs[i].req, partition(obs.reqs[i].req)[2])

(***************************************************************************)
(* SpecBatchFair: SpecBatch with a handler that is at hot.write eventually *)
(* running (the tokio scheduler polls a task that yielded again).          *)
(***************************************************************************)
HotTryOf(c) == c \in DOMAIN cl /\ HotTry(c)
SpecBatchFair ==
    Init /\ [][NextBatch]_vars /\ WF_vars(HotTryOf("c1")) /\ WF_vars(HotTryOf("c2"))

\* the calls of hot.write write_chunk has made for its partition: one per Busy
\* counted in `attempt`, and the one that got past try_get_mut
WriteCalls(r) ==
    IF r.pc = "hot" THEN r.attempt
    ELSE IF r.pc \in {"locked", "absent", "cold_read", "cold_put", "cold_upsert"}
    THEN r.attempt + 1
    ELSE 0
CallsBounded ==
    \A c \in DOMAIN cl :
        /\ WriteCalls(cl[c]) <= MAX_RETRIES
        /\ cl[c].pc = "hot" => WriteCalls(cl[c]) < MAX_RETRIES
\* one step of the retry loop of handler c
RetryStep(c) ==
    (cl[c].pc = "hot" /\ cl'[c] # cl[c]) =>
        IF lock # None
        THEN \/ /\ cl'[c].pc = "hot"
                /\ cl'[c].pi = cl[c].pi
                /\ cl'[c].attempt = cl[c].attempt + 1
                /\ cl'[c].attempt < MAX_RETRIES
             \/ /\ cl'[c].pc = "ret"
                /\ cl[c].attempt + 1 = MAX_RETRIES
                /\ cl'[c].status = "ResourceLocked"
                /\ into_response(cl'[c].status) = "SERVICE_UNAVAILABLE"
        ELSE cl'[c].pc \in {"locked", "absent"} /\ cl'[c].attempt = cl[c].attempt
RetryLeaves(c) ==
    (c \in DOMAIN cl /\ cl[c].pc = "hot") ~> (c \in DOMAIN cl /\ cl[c].pc # "hot")

\* C13: for one partition write_chunk calls hot.write at most MAX_RETRIES
\* times; a Busy either counts one attempt and retries or, on attempt
\* MAX_RETRIES, returns ResourceLocked (SERVICE_UNAVAILABLE); a handler at
\* hot.write always leaves the retry loop
C13_BoundedRetry ==
    /\ []CallsBounded
    /\ [][\A c \in DOMAIN cl : RetryStep(c)]_vars
    /\ RetryLeaves("c1") /\ RetryLeaves("c2")

\* a handler found the slot locked MAX_RETRIES times and returned
\* ResourceLocked while the slot was still held
C13_GaveUpWhileLocked ==
    \E c \in DOMAIN cl :
        /\ cl[c].pc = "ret"
        /\ cl[c].status = "ResourceLocked"
        /\ lock # None

(***************************************************************************)
(* SpecStats: write_to_block on one block of series StatsSeries.  Up to    *)
(* MaxStatWrites batches of one or two samples, of any offsets, values and *)
(* qualities (one quality has limit bits set), are written at their        *)
(* offsets, each write followed by the full recompute.                     *)
(*   objects[1]  the block        obs.n  the writes made                   *)
(***************************************************************************)
StatValues == {1, T_MAX}
StatQualities == {GOOD, BAD, UNCERTAIN + 1, MISSING}
StatSamples == (0..(StatsSlots - 1)) \X StatValues \X StatQualities
StatBatch(samples) ==
    WriteBatch(StatsSeries, 0, [i \in DOMAIN samples |-> samples[i][1]],
               [i \in DOMAIN samples |-> samples[i][2]],
               [i \in DOMAIN samples |-> samples[i][3]], 0)
StatBatches ==
    {StatBatch(<<x>>) : x \in StatSamples}
        \cup {StatBatch(<<x[1], x[2]>>) : x \in StatSamples \X StatSamples}

InitStats ==
    /\ hot = EmptyMap
    /\ lock = None
    /\ txid = 0
    /\ walDir = EmptyMap
    /\ wal = WalNew
    /\ objects = [k \in {1} |-> new_sized_block(get_block_length(SeriesMetaOf(StatsSeries)))]
    /\ catalog = EmptyMap
    /\ cl = EmptyMap
    /\ tasks = <<>>
    /\ rec = [pc |-> "stats"]
    /\ obs = [n |-> 0]

StatsWrite(batch) ==
    /\ rec.pc = "stats"
    /\ obs.n < MaxStatWrites
    /\ objects' = [objects EXCEPT ![1] = write_to_block(@, batch)]
    /\ obs' = [n |-> obs.n + 1]
    /\ UNCHANGED <<hot, lock, txid, walDir, wal, catalog, cl, tasks, rec>>

NextStats == \E batch \in StatBatches : StatsWrite(batch)

SpecStats == InitStats /\ [][NextStats]_vars

\* the major quality of q: the two high bits of the byte
Major(q) == q \div 64
ValidSlots(blk) == {i \in DOMAIN blk.qs : Major(blk.qs[i]) \in {3, 1}}
NonMissingSlots(blk) == {i \in DOMAIN blk.qs : Major(blk.qs[i]) # 2}
RECURSIVE SumOver(_, _)
SumOver(blk, S) ==
    IF S = {} THEN 0
    ELSE LET i == CHOOSE x \in S : TRUE IN blk.vals[i] + SumOver(blk, S \ {i})
StatsMatch(blk) ==
    /\ blk.meta.count_valid = Cardinality(ValidSlots(blk))
    /\ blk.meta.count_non_missing = Cardinality(NonMissingSlots(blk))
    /\ blk.meta.sum = SumOver(blk, ValidSlots(blk))
    /\ ValidSlots(blk) # {} =>
          /\ \E i \in ValidSlots(blk) : blk.meta.min = blk.vals[i]
          /\ \A i \in ValidSlots(blk) : blk.meta.min <= blk.vals[i]
          /\ \E i \in ValidSlots(blk) : blk.meta.max = blk.vals[i]
          /\ \A i \in ValidSlots(blk) : blk.meta.max >= blk.vals[i]
    /\ blk.meta.qual_acc_and \ blk.meta.qual_acc_or = {}

\* C14: after offset writes followed by the full recompute the counts, the
\* sum, the minimum and maximum of the block statistics are those of the
\* slots, and qual_acc_and has no bit outside qual_acc_or
C14_StatisticsConsistency == obs.n > 0 => StatsMatch(objects[1])

\* two writes left a block with two valid slots of different values, a Bad
\* slot, and statistics that match
C14_MixedBlockRecomputed ==
    /\ obs.n = MaxStatWrites
    /\ Cardinality(ValidSlots(objects[1])) = 2
    /\ Cardinality(NonMissingSlots(objects[1])) = 3
    /\ objects[1].meta.min = 1
    /\ objects[1].meta.max = T_MAX
    /\ objects[1].meta.sum = T_MAX + 1

StatsInvariants(blk) ==
    /\ blk.meta.qual_acc_and \cap blk.meta.qual_acc_or = blk.meta.qual_acc_and
    /\ blk.meta.count_valid <= blk.meta.count_non_missing
    /\ blk.meta.count_non_missing <= Len(blk.vals)
    /\ blk.meta.count_valid > 0 => blk.meta.min <= blk.meta.max
    /\ blk.meta.count_valid = 0 => (blk.meta.min = 0 /\ blk.meta.max = 0)

\* C15: after every full recompute qual_acc_and is a subset of qual_acc_or,
\* count_valid <= count_non_missing <= capacity, min <= max when there is a
\* valid sample, and min = max = zero when there is none
C15_StatisticsInvariants == obs.n > 0 => StatsInvariants(objects[1])

\* a block holding only Bad samples was recomputed: no valid sample
C15_NoValidSample ==
    /\ obs.n > 0
    /\ objects[1].meta.count_valid = 0
    /\ objects[1].meta.count_non_missing = 2
    /\ objects[1].meta.min = 0 /\ objects[1].meta.max = 0

(***************************************************************************)
(* The order of the frames in the WAL: the files in the order of their     *)
(* index, the frames of a file in the order they were appended.            *)
(***************************************************************************)
WalPositions == UNION {{<<f, k>> : k \in DOMAIN walDir[f]} : f \in DOMAIN walDir}
WalPosition(p) == p[1] \in DOMAIN walDir /\ p[2] \in DOMAIN walDir[p[1]]
PosBefore(p, q) == p[1] < q[1] \/ (p[1] = q[1] /\ p[2] < q[2])
\* a whole frame that decodes to an entry of the tag is at position p
EntryAt(p, tag) ==
    /\ WalPosition(p)
    /\ IsWhole(walDir[p[1]][p[2]])
    /\ entry_read(walDir[p[1]][p[2]].frame.payload).ok
    /\ entry_read(walDir[p[1]][p[2]].frame.payload).entry.tag = tag
PosEntry(p) == entry_read(walDir[p[1]][p[2]].frame.payload).entry

WritesOutOfOrder(p, q) ==
    /\ EntryAt(p, TAG_WRITE) /\ EntryAt(q, TAG_WRITE)
    /\ PosBefore(p, q)
    /\ PosEntry(p).series = PosEntry(q).series
    /\ PosEntry(p).tx >= PosEntry(q).tx

\* C16: the WRITE frames of one series are in the WAL in strictly increasing
\* tx order
C16_WalOrderPerSeries ==
    \A p \in WalPositions : \A q \in WalPositions : ~WritesOutOfOrder(p, q)

\* the handler that allocated the lower tx appended its WRITE frame second
C16_WriteFramesInverted ==
    \E p \in WalPositions : \E q \in WalPositions :
        /\ WritesOutOfOrder(p, q)
        /\ PosEntry(p).tx = PosEntry(q).tx + 1

WriteAfterFlush(p, q) ==
    /\ EntryAt(p, TAG_FLUSH) /\ EntryAt(q, TAG_WRITE)
    /\ PosBefore(p, q)
    /\ PosEntry(p).series = PosEntry(q).series
    /\ PosEntry(p).block = PosEntry(q).block
    /\ PosEntry(q).tx <= PosEntry(p).tx

\* C17: a FLUSH frame of (series, block) carrying tx T is after every WRITE
\* frame of the same (series, block) whose tx is at most T
C17_FlushFollowsWrites ==
    \A p \in WalPositions : \A q \in WalPositions : ~WriteAfterFlush(p, q)

\* a handler that had allocated its tx before the block was flushed appended
\* its WRITE frame behind the FLUSH frame of the block
C17_WriteBehindFlush ==
    \E p \in WalPositions : \E q \in WalPositions :
        /\ WriteAfterFlush(p, q)
        /\ \E c \in DOMAIN cl : cl[c].pc = "hot" /\ cl[c].tx = PosEntry(q).tx

FlushPositions == {p \in WalPositions : EntryAt(p, TAG_FLUSH)}
FlushCount == Cardinality(FlushPositions)
AtWalFlush == {i \in DOMAIN tasks : tasks[i].pc = "walflush"}
\* e is the FLUSH record of task t, whose block is in the object store under
\* the key of the task and has a catalog row
FlushOfTask(e, t) ==
    /\ t.pc = "walflush"
    /\ e = FlushEntry(t.tx, t.series, Head(t.blocks))
    /\ t.key \in DOMAIN objects
    /\ objects[t.key] = Unwrap(t.blk)
    /\ <<t.series, Head(t.blocks)>> \in DOMAIN catalog
    /\ catalog[<<t.series, Head(t.blocks)>>].object_key \in DOMAIN objects
FlushPipelineStep ==
    /\ FlushCount' # FlushCount =>
          /\ FlushCount' = FlushCount + 1
          /\ Cardinality(AtWalFlush') = Cardinality(AtWalFlush) - 1
          /\ \E t \in {tasks[i] : i \in AtWalFlush} :
                \E p \in FlushPositions' \ FlushPositions :
                    \E e \in {PosEntry(p)'} : FlushOfTask(e, t)
          /\ UNCHANGED <<objects, catalog>>
    /\ Cardinality(AtWalFlush') < Cardinality(AtWalFlush) => FlushCount' = FlushCount + 1
    /\ Cardinality(AtWalFlush') > Cardinality(AtWalFlush) =>
          /\ catalog' # catalog
          /\ UNCHANGED <<objects, walDir>>

FlushFailed(i) ==
    /\ tasks[i].pc \in {"put", "upsert"}
    /\ tasks' = task_advance(tasks, i)
FlushFailureKeeps(i) ==
    FlushFailed(i) =>
        \E t \in {tasks[i]} : InFlushing(t.series, Head(t.blocks))'

\* C19: when a step of a background flush fails, the block is still in the
\* flushing map of its series after the task has returned
C19_FlushFailureKeepsBlock == [][\A i \in DOMAIN tasks : FlushFailureKeeps(i)]_vars

\* one connection, every request acknowledged and no task left: the flush of
\* a rotated block failed, and an acknowledged sample of the block is neither
\* in the hot set nor in the cold store
C19_BlockDroppedByFailedFlush ==
    /\ Cardinality(DOMAIN cl) = 1
    /\ Quiescent
    /\ catalog = EmptyMap
    /\ \A i \in DOMAIN obs.reqs : obs.reqs[i].state = "Ok"
    /\ \E i \in DOMAIN obs.reqs : \E j \in DOMAIN obs.reqs[i].req.ts :
          /\ ~StoredSample(obs.reqs[i].req.series, obs.reqs[i].req.ts[j])
          /\ ~InFlushing(obs.reqs[i].req.series,
                         BlockOfTs(obs.reqs[i].req.series, obs.reqs[i].req.ts[j]))

(***************************************************************************)
(* SpecStartup: the start of the process (main) with failures.  The WAL    *)
(* directory may end in a torn frame, and the cold path of replay, the     *)
(* flush_block of force_flush and the background flushes may fail; `?` in  *)
(* main ends the process (rec.pc = "failed").                              *)
(***************************************************************************)
\* the process was killed while it appended a frame to file f
TornTail(dir, f) ==
    DirAppend(dir, f, Torn(dir[f][1].frame, SIZE_U32 + SIZE_U32 + TornBytes))
StartDirectories ==
    RecDirectories
        \cup UNION {{TornTail(d, f) : f \in {x \in DOMAIN d : d[x] # <<>>}} :
                      d \in RecDirectories}

InitStartup ==
    /\ hot = EmptyMap
    /\ lock = None
    /\ txid = 0
    /\ walDir \in StartDirectories
    /\ wal = WalNew
    /\ objects = EmptyMap
    /\ catalog = EmptyMap
    /\ cl = [c \in {"main"} |-> ClientIdle]
    /\ tasks = <<>>
    /\ rec = RecStart(0)
    /\ obs = [reqs |-> <<>>, wal0 |-> walDir, survivors |-> {}, first |-> None]

\* force_flush: flush_block returns an error, `?` returns it to main
RecFlushFail ==
    /\ \/ rec.pc = "flush" /\ rec.buff # <<>>
       \/ rec.pc = "flush_upsert"
    /\ rec' = [rec EXCEPT !.pc = "failed"]
    /\ UNCHANGED <<hot, lock, txid, walDir, wal, objects, catalog, cl, tasks, obs>>

NextStartup ==
    \/ NextRecovery
    \/ ColdFail("main")
    \/ RecFlushFail
    \/ \E i \in DOMAIN tasks : TaskFail(i)

SpecStartup == InitStartup /\ [][NextStartup]_vars

FilesDeleted == \E f \in DOMAIN walDir : f \notin DOMAIN walDir'
NoHotBlock ==
    \A s \in DOMAIN hot : hot[s].live = None /\ DOMAIN hot[s].flushing = {}
\* the directory scans without error in some order of its files
Scannable(dir) == \E order \in Orders(DOMAIN dir) : find_wal_to_recover(dir, order).ok
StartupStep ==
    \* files are deleted by the step behind force_flush only
    /\ FilesDeleted =>
          /\ rec.pc = "flush" /\ rec.buff = <<>> /\ rec'.pc = "done"
          /\ rec.k > Len(rec.todo)
          /\ cl["main"].pc = "idle"
          /\ NoHotBlock
    \* replay starts with a scan that succeeded
    /\ (rec.pc = "scan" /\ rec'.pc # "scan") =>
          IF Scannable(walDir) THEN rec'.pc \in {"replay", "failed"} ELSE rec'.pc = "failed"
    \* a record is counted as replayed when write_chunk returned Ok
    /\ (rec.pc = "replay" /\ rec'.pc = "replay" /\ rec'.k # rec.k) =>
          /\ cl["main"].pc = "ret" /\ cl["main"].status = "Ok"
          /\ rec'.k = rec.k + 1
    /\ (rec.pc = "replay" /\ cl["main"].pc = "ret" /\ cl["main"].status # "Ok"
          /\ cl'["main"] # cl["main"]) => rec'.pc = "failed"
    \* force_flush starts when every record is replayed
    /\ (rec.pc = "replay" /\ rec'.pc = "flush") =>
          rec.k > Len(rec.todo) /\ cl["main"].pc = "idle"
    \* a block of force_flush is done when its upsert has succeeded
    /\ (rec.pc \in {"flush", "flush_upsert"} /\ rec'.pc \in {"flush", "flush_upsert"}
          /\ rec'.buff # rec.buff) =>
          /\ rec.pc = "flush_upsert" /\ rec'.buff = Tail(rec.buff)
          /\ \E b \in {Head(rec.buff)} :
                /\ <<b.series, b.block>> \in DOMAIN catalog'
                /\ objects'[catalog'[<<b.series, b.block>>].object_key] = b.blk
    \* a failed start deletes nothing and goes no further
    /\ rec.pc = "failed" => (rec'.pc = "failed" /\ ~FilesDeleted)

\* C20: the WAL files are deleted only after every surviving WRITE has been
\* replayed with success and every block of the hot set has been
\* force-flushed (object written and catalog upserted); when the scan, the
\* replay or force_flush fails, no file is deleted and the start goes no
\* further
C20_RecoveryStepOrder == [][StartupStep]_vars

\* a start that replayed a record, force-flushed its block and then deleted
\* the files of the directory
C20_CleanupAfterFlush ==
    /\ rec.pc = "done"
    /\ rec.crash = 0
    /\ walDir = EmptyMap
    /\ obs.wal0 # EmptyMap
    /\ Len(rec.todo) > 0
    /\ catalog # EmptyMap

\* the scan of the directory with the files taken in ascending index order
\* (wal_000.log first), the frames of a file in append order
ScanAscending(dir) == find_wal_to_recover(dir, SortedKeys(DOMAIN dir))

\* C21: the recovery scan examines the files in ascending filename order and
\* the frames of a file in append order: what it returns is what the scan in
\* that order returns
C21_ScanInAppendOrder ==
    (rec.pc = "scanned" /\ IsSome(obs.scan)) => Unwrap(obs.scan) = ScanAscending(walDir)

\* the directory listing gave a later file first: the scan met the FLUSH
\* record of a tx before its WRITE record and returned the WRITE as surviving
C21_FlushSeenBeforeWrite ==
    /\ rec.pc = "scanned"
    /\ IsSome(obs.scan)
    /\ Unwrap(obs.scan).ok
    /\ ScanAscending(walDir).ok
    /\ \E tx \in DOMAIN Unwrap(obs.scan).todo :
          /\ tx \notin DOMAIN ScanAscending(walDir).todo
          /\ \E e \in obs.acked : e.tag = TAG_FLUSH /\ e.tx = tx

\* the file holds a corrupted frame: its iterator reports a checksum
\* mismatch or an invalid frame length
CorruptedFile(file) ==
    \E i \in DOMAIN frame_iterator(file) :
        /\ ~frame_iterator(file)[i].ok
        /\ frame_iterator(file)[i].err \in {"ChecksumMismatch", "InvalidFrameLength"}
\* the frames the iterator yields before its first error
RECURSIVE ItemsBeforeError(_, _)
ItemsBeforeError(items, i) ==
    IF i > Len(items) \/ ~items[i].ok THEN <<>>
    ELSE <<items[i]>> \o ItemsBeforeError(items, i + 1)
\* a scan that skips the rest of a file behind an error and goes on
RECURSIVE ScanSkipping(_, _, _, _)
ScanSkipping(todo, dir, order, k) ==
    IF k > Len(order) THEN [ok |-> TRUE, todo |-> todo]
    ELSE ScanSkipping(scan_items(todo, ItemsBeforeError(frame_iterator(dir[order[k]]), 1), 1).todo,
                      dir, order, k + 1)

\* C22: a scan that meets a corrupted frame skips the rest of that file and
\* returns the frames read so far and those of the other files; the start is
\* not aborted
C22_CorruptionSkipsFile ==
    (rec.pc = "scanned" /\ IsSome(obs.scan)
        /\ \E f \in DOMAIN walDir : CorruptedFile(walDir[f])) =>
        /\ Unwrap(obs.scan).ok
        /\ \E order \in Orders(DOMAIN walDir) :
              Unwrap(obs.scan) = ScanSkipping(EmptyMap, walDir, order, 1)

\* the scan met a corrupted frame and returned the error, although the
\* directory holds the frame of an acknowledged WRITE with no FLUSH record
C22_ScanAbortedOnCorruption ==
    /\ rec.pc = "scanned"
    /\ IsSome(obs.scan)
    /\ \E f \in DOMAIN walDir : CorruptedFile(walDir[f])
    /\ ~Unwrap(obs.scan).ok
    /\ \E e \in obs.acked :
          /\ e.tag = TAG_WRITE
          /\ WalHolds(e)
          /\ \A x \in obs.acked : ~(x.tag = TAG_FLUSH /\ x.tx = e.tx)

\* the file ends inside the payload of a frame: whole frames, then a frame
\* whose header is complete and whose payload is short
TruncatedTail(file) ==
    /\ Len(file) >= 1
    /\ \A i \in 1..(Len(file) - 1) : IsWhole(file[i])
    /\ ~IsWhole(file[Len(file)])
    /\ file[Len(file)].have >= SIZE_U32 + SIZE_U32
FramesThenEof(file) ==
    [i \in 1..Len(file) |-> IF i < Len(file) THEN ItemOk(file[i].frame) ELSE ItemErr("Io")]

FailedAppends ==
    {i \in DOMAIN obs.reqs :
        \/ obs.reqs[i].state = "Internal"
        \/ \E c \in DOMAIN cl : cl[c].pc = "ret" /\ cl[c].rid = i /\ cl[c].status = "Internal"}
RequestInWal(req) ==
    \E k \in DOMAIN partition(req) : \E j \in DOMAIN req.ts :
        SampleInWal(req, partition(req)[k], j)
RequestInHot(req) ==
    \E k \in DOMAIN partition(req) : \E j \in DOMAIN req.ts :
        SampleInHot(req, partition(req)[k], j)

\* C24: when the WAL append of a partition returned an error, a scan of the
\* WAL directory finds no frame of the partition, the hot set holds nothing
\* of it, and the request is not acknowledged
C24_FailedAppendUnobservable ==
    \A i \in FailedAppends :
        /\ ~RequestInWal(obs.reqs[i].req)
        /\ ~RequestInHot(obs.reqs[i].req)
        /\ obs.reqs[i].state # "Ok"

\* a request was answered Internal, and the WAL holds the whole frame of its
\* WRITE record
C24_FailedAppendLeftFrame ==
    \E i \in DOMAIN obs.reqs :
        /\ obs.reqs[i].state = "Internal"
        /\ RequestInWal(obs.reqs[i].req)
        /\ ~RequestInHot(obs.reqs[i].req)

\* one append of the writer: the file it starts in (index 0 for the first
\* append of a run), the files that received bytes, the bytes of the whole
\* frames of a file
StartFile == IF wal.current_file = None THEN 0 ELSE Unwrap(wal.current_file)
LenIn(dir, f) == IF f \in DOMAIN dir THEN Len(dir[f]) ELSE 0
WrittenFiles == {f \in DOMAIN walDir' : Len(walDir'[f]) > LenIn(walDir, f)}
RECURSIVE FileBytes(_, _)
FileBytes(file, i) ==
    IF i > Len(file) THEN 0
    ELSE (IF IsWhole(file[i]) THEN file[i].have ELSE 0) + FileBytes(file, i + 1)
RotationStep ==
    obs'.n = obs.n + 1 =>
        \* the frame goes into the file that is current when the append starts
        /\ WrittenFiles \subseteq {StartFile}
        /\ \A f \in WrittenFiles : Len(walDir'[f]) = LenIn(walDir, f) + 1
        \* the writer stays in the file or moves to the next index
        /\ \/ walDir' = walDir /\ wal' = wal
           \/ /\ StartFile \in DOMAIN walDir'
              /\ IF FileBytes(walDir'[StartFile], 1) > WalMaxFileSize
                 THEN wal'.current_file = Some(StartFile + 1) /\ wal'.current_size = 0
                 ELSE /\ wal'.current_file = Some(StartFile)
                      /\ wal'.current_size = FileBytes(walDir'[StartFile], 1)
        \* no index is skipped or used again
        /\ \A f \in DOMAIN walDir' : \A g \in 0..f : g \in DOMAIN walDir'

\* C25: the first append opens file index 0, a frame is written into the
\* file that is current when the append starts, the writer moves from index
\* i to i + 1 exactly when the bytes of file i exceed max_file_size after an
\* append, with the byte counter reset to 0, and no index is skipped or used
\* again
C25_RotationStateMachine == [][RotationStep]_vars

\* the open of wal_000.log failed and the next append opened wal_001.log:
\* index 0 was skipped
C25_IndexSkipped ==
    /\ rec.pc = "up"
    /\ 0 \notin DOMAIN walDir
    /\ 1 \in DOMAIN walDir
    /\ wal.current_file = Some(1)

(***************************************************************************)
(* Replay order (SpecRecovery).                                            *)
(***************************************************************************)
\* a surviving record other than e wrote the offset of sample i of e
SeveralWrote(e, i) ==
    \E e2 \in obs.survivors :
        e2.tx # e.tx /\ e2.series = e.series /\ \E j \in DOMAIN e2.ts : e2.ts[j] = e.ts[i]

\* the records are handed to replay in ascending tx order
ReplayAscending ==
    \A i, j \in DOMAIN rec.todo :
        i < j => entry_read(rec.todo[i].payload).entry.tx
                     < entry_read(rec.todo[j].payload).entry.tx

\* C26 (replay order): the surviving WRITE records are replayed in ascending
\* tx order, and once recovery has completed, an offset that several
\* surviving WRITE records of a series wrote reads the value of the record
\* with the highest tx.
C26_HighestTxWins ==
    /\ ReplayAscending
    /\ RecoveryCompleted =>
          \A e \in obs.survivors : \A i \in DOMAIN e.ts :
              (SeveralWrote(e, i) /\ ~Overwritten(e, i)) => Recovered(e, i)

\* C26: recovery completed, and an offset written by two surviving records
\* reads the value of the one with the lower tx
C26_LowerTxValueRead ==
    /\ RecoveryCompleted
    /\ rec.crash = 0
    /\ \E e \in obs.survivors : \E e2 \in obs.survivors :
          /\ e2.tx < e.tx
          /\ e2.series = e.series
          /\ \E i \in DOMAIN e.ts : \E j \in DOMAIN e2.ts :
                /\ e2.ts[j] = e.ts[i]
                /\ ~Overwritten(e, i)
                /\ e2.vals[j] # e.vals[i]
                /\ ColdSample(e.series, e.ts[i]) = [v |-> e2.vals[j], q |-> e2.qs[j]]

(***************************************************************************)
(* Flush tasks and the flushing map (Spec).                                *)
(***************************************************************************)
\* the task at position i holds a block it took from the flushing map
Holds(i) == tasks[i].pc \in {"put", "upsert", "walflush"}

\* the task at position i is inside take_flushing_block for a block the
\* flushing map does not hold
TakesNothing(i) ==
    /\ tasks[i].pc = "taking"
    /\ Head(tasks[i].blocks) \notin DOMAIN hot[tasks[i].series].flushing

Holders == {i \in DOMAIN tasks : Holds(i)}
\* the entries of the flushing maps of all series
FlushingEntries == UNION {{<<s, b>> : b \in DOMAIN hot[s].flushing} : s \in DOMAIN hot}

\* one step seen from the flushing maps and the flush tasks
FlushTaskStep ==
    \* take_flushing_block returns: an entry that is in the map is removed
    \* from it and handed to the caller, a missing entry gives the caller
    \* nothing and the caller writes nothing
    /\ \A i \in DOMAIN tasks :
          (tasks[i].pc = "taking" /\ lock' = None) =>
              IF Head(tasks[i].blocks) \in DOMAIN hot[tasks[i].series].flushing
              THEN /\ Head(tasks[i].blocks) \notin DOMAIN hot'[tasks[i].series].flushing
                   /\ i \in DOMAIN tasks'
                   /\ Holds(i)'
                   /\ tasks'[i].blk =
                          Some(hot[tasks[i].series].flushing[Head(tasks[i].blocks)].blk)
              ELSE /\ UNCHANGED <<hot, objects, catalog>>
                   /\ Cardinality(Holders') = Cardinality(Holders)
    \* a task comes to hold a block only by taking one entry out of a map
    /\ Cardinality(Holders') > Cardinality(Holders) =>
          /\ Cardinality(Holders') = Cardinality(Holders) + 1
          /\ FlushingEntries' \subseteq FlushingEntries
          /\ Cardinality(FlushingEntries \ FlushingEntries') = 1
    \* a task writes an object or a catalog row only for a block it holds
    /\ (tasks' # tasks /\ (objects' # objects \/ catalog' # catalog)) =>
          \E i \in Holders : i \in DOMAIN tasks' /\ tasks'[i] # tasks[i]

\* C27 (no double flush): an entry of a flushing map is handed to at most
\* one flush task: take_flushing_block removes the entry it returns, every
\* other task asking for it gets None, and a task that got None writes no
\* object and upserts no catalog row.
C27_NoDoubleFlush == [][FlushTaskStep]_vars

\* C27: a task is inside take_flushing_block for a block the map no longer
\* holds, while another task holds the block of that number
C27_SecondTaskGetsNone ==
    \E i \in DOMAIN tasks : \E j \in DOMAIN tasks :
        /\ TakesNothing(i)
        /\ Holds(j)
        /\ tasks[j].series = tasks[i].series
        /\ Head(tasks[j].blocks) = Head(tasks[i].blocks)

(***************************************************************************)
(* Rejected hot writes (Spec).                                             *)
(***************************************************************************)
\* the step is the return of hot.write to process c with Busy
ReturnsBusy(c) == cl[c].pc = "hot" /\ lock # None /\ cl'[c] # cl[c]
\* the step is the return of hot.write to process c with NeedsColdStore
ReturnsNeedsColdStore(c) ==
    cl[c].pc \in {"locked", "absent"} /\ cl'[c].pc = "cold_read"

RejectedWriteStep ==
    \A c \in DOMAIN cl : (ReturnsBusy(c) \/ ReturnsNeedsColdStore(c)) => hot' = hot

\* C28 (rejected writes change nothing): a call of hot.write that returns
\* NeedsColdStore or Busy leaves the hot set as it was: the live block, the
\* live block number, tx_high and the flushing map of every series.
C28_RejectedWriteChangesNothing == [][RejectedWriteStep]_vars

\* C28: a write was rejected with Busy and, tried again, with
\* NeedsColdStore, the slot of its series holding a live block
C28_RejectedTwice ==
    \E c \in DOMAIN cl :
        /\ cl[c].pc = "cold_read"
        /\ cl[c].attempt > 0
        /\ cl[c].req.series \in DOMAIN hot
        /\ IsSome(hot[cl[c].req.series].live)

(***************************************************************************)
(* take_all_blocks and the live block number (SpecHot).                    *)
(***************************************************************************)
\* the blocks of slot s: the live block under the live block number and the
\* blocks of the flushing map, each with its tx_high
SlotBlocks(s) ==
    (IF IsSome(hot[s].live)
     THEN {[series |-> s, tx |-> Unwrap(hot[s].live).tx, block |-> Unwrap(hot[s].live_id),
            blk |-> Unwrap(hot[s].live).blk]}
     ELSE {})
    \cup {[series |-> s, tx |-> hot[s].flushing[b].tx, block |-> b,
           blk |-> hot[s].flushing[b].blk] : b \in DOMAIN hot[s].flushing}
AllBlocks == UNION {SlotBlocks(s) : s \in DOMAIN hot}
\* every (series, block number) is returned once
OncePerBlock(buff) ==
    \A x \in buff : \A y \in buff : (x.series = y.series /\ x.block = y.block) => x = y

TakeAllStep ==
    (obs'.n = obs.n + 1 /\ obs'.last.kind \in {"take_all", "take_all_panic"}) =>
        /\ obs'.last.kind = "take_all"
        /\ Unwrap(obs'.last.res) = AllBlocks
        /\ OncePerBlock(Unwrap(obs'.last.res))
        /\ Cardinality(Unwrap(obs'.last.res)) = Cardinality(AllBlocks)
        /\ AllBlocks' = {}

\* C29 (take_all_blocks drains the hot set): from every hot-set state that
\* calls of write, take_flushing_block and take_all_blocks reach,
\* take_all_blocks completes without a panic, returns the live block and
\* every flushing block of every series once, each with its tx_high, and
\* leaves no slot with a live or a flushing block.
C29_TakeAllDrains == [][TakeAllStep]_vars

\* C29: take_all_blocks was called on a hot set that has a slot without a
\* live block, and panicked in flush_live
C29_TakeAllPanicked ==
    /\ obs.last.kind = "take_all_panic"
    /\ \E s \in DOMAIN hot : hot[s].live = None /\ IsSome(hot[s].live_id)

\* the live block number of slot s does not decrease in the step, and a live
\* block is replaced only by a block of a greater number
LiveNumberStep ==
    \A s \in DOMAIN hot :
        /\ s \in DOMAIN hot'
        /\ IsSome(hot[s].live_id) =>
              /\ IsSome(hot'[s].live_id)
              /\ Unwrap(hot'[s].live_id) >= Unwrap(hot[s].live_id)
        /\ (IsSome(hot[s].live) /\ IsSome(hot'[s].live)
             /\ Unwrap(hot[s].live_id) # Unwrap(hot'[s].live_id)) =>
              Unwrap(hot'[s].live_id) > Unwrap(hot[s].live_id)

\* C30 (live block number monotonic): across any sequence of hot-set
\* operations on a series the live block number never decreases, and a
\* live block is replaced only by a block of a strictly greater number.
C30_LiveNumberMonotonic == [][LiveNumberStep]_vars

\* C30: after take_all_blocks a write of an older block was accepted and
\* became the live block, under a live block number lower than before
C30_LiveNumberDecreased ==
    /\ obs.last.kind = "write"
    /\ Unwrap(obs.last.res).kind = "Ok"
    /\ IsSome(obs.last.pre)
    /\ IsSome(Unwrap(obs.last.pre).live_id)
    /\ Unwrap(obs.last.res).live < Unwrap(Unwrap(obs.last.pre).live_id)

(***************************************************************************)
(* tx_high of the hot blocks (SpecHot).                                    *)
(***************************************************************************)
\* the step is a write of batch that returned Ok
WroteOk(batch) ==
    /\ obs'.n = obs.n + 1
    /\ obs'.last.kind = "write"
    /\ obs'.last.batch = Some(batch)
    /\ Unwrap(obs'.last.res).kind = "Ok"

\* the live block of slot s before the step is the block the batch goes to
SameLive(batch) ==
    /\ batch.series \in DOMAIN hot
    /\ IsSome(hot[batch.series].live)
    /\ hot[batch.series].live_id = Some(batch.block_id)

TxHighStep ==
    \* a write raises tx_high of the block it is applied to to the maximum of
    \* the tx of the batch and what the block had; a fresh block starts with
    \* the tx of the batch
    /\ \A batch \in HotBatches(obs.n + 1) :
          WroteOk(batch) =>
              /\ IsSome(hot'[batch.series].live)
              /\ hot'[batch.series].live_id = Some(batch.block_id)
              /\ Unwrap(hot'[batch.series].live).tx >= batch.tx
              /\ Unwrap(hot'[batch.series].live).tx =
                    IF SameLive(batch)
                    THEN Max2(Unwrap(hot[batch.series].live).tx, batch.tx)
                    ELSE batch.tx
    \* a block in a flushing map carries the tx_high it had in the map or as
    \* the live block before the step
    /\ \A s \in DOMAIN hot' : \A b \in DOMAIN hot'[s].flushing :
          \/ /\ s \in DOMAIN hot
             /\ b \in DOMAIN hot[s].flushing
             /\ hot'[s].flushing[b] = hot[s].flushing[b]
          \/ /\ s \in DOMAIN hot
             /\ b \notin DOMAIN hot[s].flushing
             /\ hot[s].live_id = Some(b)
             /\ hot[s].live = Some(hot'[s].flushing[b])

\* C31 (tx_high tracking): the tx_high of a live block is the maximum tx of
\* the writes applied to it, also when the writes come out of tx order; a
\* block keeps its tx_high when it moves to the flushing map and while it is
\* there, so the tx_high of a block never decreases.
C31_TxHighTracking == [][TxHighStep]_vars

\* C31: a write with a tx below the tx_high of the live block was applied to
\* it, and the tx_high stayed
C31_OutOfOrderWrite ==
    /\ obs.last.kind = "write"
    /\ Unwrap(obs.last.res).kind = "Ok"
    /\ IsSome(obs.last.pre)
    /\ IsSome(Unwrap(obs.last.pre).live)
    /\ Unwrap(obs.last.pre).live_id = Some(Unwrap(obs.last.batch).block_id)
    /\ Unwrap(obs.last.batch).tx < Unwrap(Unwrap(obs.last.pre).live).tx
    /\ Unwrap(hot[Unwrap(obs.last.batch).series].live).tx
          = Unwrap(Unwrap(obs.last.pre).live).tx

(***************************************************************************)
(* The partition loop of batch_ingest (SpecPartition).  One request is     *)
(* drawn at the start; batch_ingest validates it and submits its ranges    *)
(* one after the other, every write_chunk returning Ok.                    *)
(*   obs.req        the request                                            *)
(*   obs.begun      batch_ingest has been entered                          *)
(*   obs.submitted  the ranges handed to write_chunk, in order             *)
(***************************************************************************)
PartRequests ==
    {SampleRequest(1, ts) : ts \in SeqsUpTo(0..PartMaxTs, PartMaxLen)}

InitPartition ==
    /\ hot = EmptyMap
    /\ lock = None
    /\ txid = 0
    /\ walDir = EmptyMap
    /\ wal = WalNew
    /\ objects = EmptyMap
    /\ catalog = EmptyMap
    /\ cl = [c \in {"c1"} |-> ClientIdle]
    /\ tasks = <<>>
    /\ rec = [pc |-> "serving"]
    /\ obs \in {[req |-> r, begun |-> FALSE, submitted |-> <<>>] : r \in PartRequests}

\* batch_ingest up to the first write_chunk
PartBegin ==
    /\ ~obs.begun
    /\ cl' = [cl EXCEPT !["c1"] = batch_ingest_begin(1, obs.req, validate(obs.req))]
    /\ obs' = [obs EXCEPT !.begun = TRUE]
    /\ UNCHANGED <<hot, lock, txid, walDir, wal, objects, catalog, tasks, rec>>

\* write_chunk of the current range returns Ok; the loop goes on
PartSubmit ==
    /\ cl["c1"].pc = "alloc"
    /\ obs' = [obs EXCEPT !.submitted = Append(@, cl["c1"].parts[cl["c1"].pi])]
    /\ cl' = [cl EXCEPT !["c1"] = start_partition(@, @.pi + 1)]
    /\ UNCHANGED <<hot, lock, txid, walDir, wal, objects, catalog, tasks, rec>>

NextPartition ==
    \/ PartBegin
    \/ PartSubmit

SpecPartition == InitPartition /\ [][NextPartition]_vars

\* batch_ingest has returned Ok
PartDone == cl["c1"].pc = "ret" /\ cl["c1"].status = "Ok"

BlockOfIndex(i) == get_block_id(SeriesMetaOf(obs.req.series), obs.req.ts[i])

\* C32 (partitioning): the ranges batch_ingest submits for a validated
\* batch of N samples are non-empty, consecutive and in ascending index
\* order, start at the first sample and, when the handler has returned Ok,
\* end at the last; every timestamp of a range maps to the block number of
\* the range, adjacent ranges have different block numbers, and no block
\* number occurs in two ranges.
C32_Partitioning ==
    LET S == obs.submitted
    IN /\ S # <<>> => S[1].lo = 1
       /\ \A k \in DOMAIN S :
             /\ S[k].lo <= S[k].hi
             /\ S[k].hi <= Len(obs.req.ts)
             /\ \A i \in S[k].lo..S[k].hi : BlockOfIndex(i) = S[k].block
       /\ \A k \in 1..(Len(S) - 1) :
             /\ S[k + 1].lo = S[k].hi + 1
             /\ S[k + 1].block # S[k].block
       /\ \A k \in DOMAIN S : \A l \in DOMAIN S : S[k].block = S[l].block => k = l
       /\ PartDone => (S # <<>> /\ S[Len(S)].hi = Len(obs.req.ts))

\* C32: a batch of three blocks was submitted in three ranges
C32_ThreeRanges == PartDone /\ Len(obs.submitted) >= 3

(***************************************************************************)
(* Series descriptors and the sample index (SpecSeries).  A descriptor     *)
(* with an explicit block length is drawn at the start, create_series      *)
(* validates it, and samples are written into fresh blocks of the series.  *)
(*   obs.meta   the descriptor       obs.state  new, rejected, accepted,   *)
(*   obs.ts     the timestamp        written or panic (index out of range) *)
(*   obs.idx    the index computed for obs.ts by write_to_block            *)
(***************************************************************************)
Millisecond == 1
SeriesDescriptors ==
    {[id |-> 1, storage_type |-> "Enumeration",
      block_length |-> bl, block_resolution |-> Millisecond,
      sample_length |-> sl, sample_resolution |-> Millisecond] :
        bl \in 1..MaxBlockLen, sl \in 1..MaxSampleLen}

\* CreateSeries::validate on a request that gives block length and resolution
create_series_validate(meta) ==
    IF duration(meta.block_resolution, meta.block_length)
         <= duration(meta.sample_resolution, meta.sample_length)
    THEN "SampleBlockDurationMismatch"
    ELSE "Ok"

\* the index write_to_block computes for the timestamp ts of its block
block_index(meta, ts) ==
    get_sample_offset(meta, ts - get_block_start_as_offset(meta, get_block_id(meta, ts)))

InitSeries ==
    /\ hot = EmptyMap
    /\ lock = None
    /\ txid = 0
    /\ walDir = EmptyMap
    /\ wal = WalNew
    /\ objects = EmptyMap
    /\ catalog = EmptyMap
    /\ cl = EmptyMap
    /\ tasks = <<>>
    /\ rec = [pc |-> "serving"]
    /\ obs \in {[meta |-> m, state |-> "new", ts |-> 0, idx |-> 0] : m \in SeriesDescriptors}

\* create_series: the descriptor is validated
SeriesCreate ==
    /\ obs.state = "new"
    /\ obs' = [obs EXCEPT !.state = IF create_series_validate(obs.meta) = "Ok"
                                     THEN "accepted" ELSE "rejected"]
    /\ UNCHANGED <<hot, lock, txid, walDir, wal, objects, catalog, cl, tasks, rec>>

\* write_to_block of one sample with timestamp ts into a fresh block of
\* get_block_length slots: vals[idx] panics when idx is out of range
SeriesWrite(ts) ==
    /\ obs.state \in {"accepted", "written"}
    /\ obs' = [obs EXCEPT !.ts = ts, !.idx = block_index(obs.meta, ts),
                          !.state = IF block_index(obs.meta, ts) < get_block_length(obs.meta)
                                    THEN "written" ELSE "panic"]
    /\ UNCHANGED <<hot, lock, txid, walDir, wal, objects, catalog, cl, tasks, rec>>

NextSeries ==
    \/ SeriesCreate
    \/ \E ts \in 0..MaxSeriesTs : SeriesWrite(ts)

SpecSeries == InitSeries /\ [][NextSeries]_vars

\* C33 (sample index in range): for every descriptor that create-series
\* validation accepts and every timestamp, the index computed for the
\* timestamp inside its block is in 0..capacity-1, capacity being
\* get_block_length of the series, so the write into the value and quality
\* vectors never indexes outside them.
C33_SampleIndexInRange ==
    obs.state \in {"written", "panic"} =>
        /\ obs.state = "written"
        /\ obs.idx \in 0..(get_block_length(obs.meta) - 1)

\* C33: an accepted descriptor whose block duration is no multiple of its
\* sample duration, and a timestamp whose index is the capacity of the block
C33_IndexOutOfRange ==
    /\ obs.state = "panic"
    /\ create_series_validate(obs.meta) = "Ok"
    /\ obs.idx >= get_block_length(obs.meta)

(***************************************************************************)
(* The full recompute as a function of the vectors (SpecStats).            *)
(***************************************************************************)
\* the statistics without the object key
SansKey(m) == [m EXCEPT !.object_key = 0]
\* the recompute over the vectors of blk, started from a new record
FreshStats(blk) == recalc_block_data_full(BlockMetaNew, blk.vals, blk.qs)

\* C34 (full recompute is stateless): the statistics the recompute leaves are
\* a function of the value and quality vectors only: the record of a block
\* that earlier writes and recomputes have filled equals, object_key aside,
\* the record recomputed over the same vectors from a new record.
C34_RecomputeStateless ==
    obs.n > 0 => SansKey(objects[1].meta) = SansKey(FreshStats(objects[1]))

\* C34: every slot of the block is missing again, and the record still has
\* the last value of the samples that were overwritten
C34_StaleLast ==
    /\ obs.n > 0
    /\ NonMissingSlots(objects[1]) = {}
    /\ objects[1].meta.lst # FreshStats(objects[1]).lst

(***************************************************************************)
(* Creation of a slot (Spec).                                              *)
(***************************************************************************)
\* the step is the insert of the Absent arm of HotSet::write by process c
InsertsSlot(c) == cl[c].pc = "absent" /\ cl'[c].pc # "absent"

SlotCreationStep ==
    \A c \in DOMAIN cl :
        InsertsSlot(c) =>
            \* the series has no slot when the new one is inserted
            /\ cl[c].req.series \notin DOMAIN hot
            \* the samples of the call are in the slot that is in the map
            /\ \E r \in {cl[c]} :
                  \A j \in DOMAIN cur_batch(r).ts :
                      StoredSample(r.req.series, cur_batch(r).ts[j])'

\* C35 (atomic slot creation): for any interleaving of concurrent calls of
\* HotSet::write on a series without a slot, the slot a call creates is put
\* into the map only when the map has no slot for the series, so a slot that
\* holds an acknowledged write is never replaced, and the samples of every
\* call that returns Ok are in the slot that remains.
C35_AtomicSlotCreation == [][SlotCreationStep]_vars

\* C35: two requests for different timestamps of a series were both
\* acknowledged, no flush is pending, and only the sample of one of them is
\* stored
C35_AckedSlotReplaced ==
    /\ Quiescent
    /\ \E i \in DOMAIN obs.reqs : \E j \in DOMAIN obs.reqs :
          /\ obs.reqs[i].state = "Ok" /\ obs.reqs[j].state = "Ok"
          /\ obs.reqs[i].req.series = obs.reqs[j].req.series
          /\ obs.reqs[i].req.ts[1] # obs.reqs[j].req.ts[1]
          /\ ~StoredSample(obs.reqs[i].req.series, obs.reqs[i].req.ts[1])
          /\ StoredSample(obs.reqs[j].req.series, obs.reqs[j].req.ts[1])
          /\ catalog = EmptyMap

(***************************************************************************)
(* The cold store as the catalog resolves it.                              *)
(***************************************************************************)
\* the block the catalog resolves (series, block) to
ColdBlock(sb) == objects[catalog[sb].object_key]
\* the offsets at which the cold block of sb holds a sample
ColdOffsets(sb) ==
    {k \in DOMAIN ColdBlock(sb).qs : ~is_missing(ColdBlock(sb).qs[k])}

ColdKeepsStep ==
    \A sb \in DOMAIN catalog :
        /\ sb \in DOMAIN catalog'
        /\ ColdOffsets(sb) \subseteq ColdOffsets(sb)'

\* C36 (cold data is never lost): once a sample of (series, block, offset)
\* is readable through the catalog, every later catalog state resolves
\* (series, block) to a block with a sample at that offset.
C36_ColdDataKept == [][ColdKeepsStep]_vars

\* C36: the catalog row of a block was replaced by the flush of an older hot
\* copy: an acknowledged sample that went through the cold path is no
\* longer in the cold block, and no hot block or task holds the block
C36_ColdSampleLost ==
    /\ Quiescent
    /\ \E i \in DOMAIN obs.reqs :
          /\ obs.reqs[i].state = "Ok"
          /\ IsSome(obs.reqs[i].cold)
          /\ InCold(obs.reqs[i].req.series,
                    BlockOfTs(obs.reqs[i].req.series, obs.reqs[i].req.ts[1]))
          /\ is_missing(ColdSample(obs.reqs[i].req.series, obs.reqs[i].req.ts[1]).q)

(***************************************************************************)
(* Concurrent cold-path writes (SpecCold).  The run starts in the state    *)
(* the server is in after it has acknowledged one sample of block 1 of     *)
(* series 1: block 1 is the live block.  Two connections then send         *)
(* samples of block 0, which all take the cold path.                       *)
(***************************************************************************)
ColdFirstBatch == WriteBatch(1, 1, <<2>>, <<1>>, <<GOOD>>, 0)
ColdFirstRequest == SampleRequest(1, <<2>>)
ColdTimestamps == {0, 1}

InitCold ==
    /\ hot = MapPut(EmptyMap, 1, write_into_block(HotDataDefault, ColdFirstBatch).hd)
    /\ lock = None
    /\ txid = 1
    /\ walDir = write_entry(WalNew, EmptyMap, from_write_batch(ColdFirstBatch), NoFault).dir
    /\ wal = write_entry(WalNew, EmptyMap, from_write_batch(ColdFirstBatch), NoFault).w
    /\ objects = EmptyMap
    /\ catalog = EmptyMap
    /\ cl = [c \in Clients |-> ClientIdle]
    /\ tasks = <<>>
    /\ rec = [pc |-> "serving"]
    /\ obs = [reqs |-> <<[req |-> ColdFirstRequest, state |-> "Ok", cold |-> None,
                          before |-> {}]>>]

ArriveCold(c) ==
    /\ Len(obs.reqs) < 1 + MaxColdReq
    /\ \E t \in ColdTimestamps : Begin(c, SampleRequest(Len(obs.reqs) + 1, <<t>>))

NextCold ==
    \/ \E c \in DOMAIN cl : ArriveCold(c)
    \/ \E c \in DOMAIN cl : AllocTx(c)
    \/ \E c \in DOMAIN cl : WalWrite(c, NoFault)
    \/ \E c \in DOMAIN cl : HotTry(c)
    \/ \E c \in DOMAIN cl : HotWrite(c)
    \/ \E c \in DOMAIN cl : ColdRead(c)
    \/ \E c \in DOMAIN cl : ColdPut(c)
    \/ \E c \in DOMAIN cl : ColdUpsert(c)
    \/ \E c \in DOMAIN cl : Return(c)

SpecCold == InitCold /\ [][NextCold]_vars

\* requests i and j went through the cold path for different offsets of the
\* same block and both returned success
BothColdOk(i, j) ==
    /\ i # j
    /\ obs.reqs[i].state = "Ok" /\ obs.reqs[j].state = "Ok"
    /\ IsSome(obs.reqs[i].cold) /\ IsSome(obs.reqs[j].cold)
    /\ obs.reqs[i].req.series = obs.reqs[j].req.series
    /\ BlockOfTs(obs.reqs[i].req.series, obs.reqs[i].req.ts[1])
          = BlockOfTs(obs.reqs[j].req.series, obs.reqs[j].req.ts[1])
    /\ obs.reqs[i].req.ts[1] # obs.reqs[j].req.ts[1]
\* neither request had returned when the other arrived
Concurrent(i, j) == i \notin obs.reqs[j].before /\ j \notin obs.reqs[i].before

HasColdSample(i) ==
    ColdSample(obs.reqs[i].req.series, obs.reqs[i].req.ts[1])
        = [v |-> obs.reqs[i].req.vals[1], q |-> obs.reqs[i].req.qs[1]]

\* C37 (concurrent cold writes both take effect): when two cold-path writes
\* to different offsets of the same (series, block) have both returned
\* success, the block the catalog resolves to holds both samples, also when
\* the two ran concurrently.
C37_BothColdWritesKept ==
    \A i \in DOMAIN obs.reqs : \A j \in DOMAIN obs.reqs :
        BothColdOk(i, j) => (HasColdSample(i) /\ HasColdSample(j))

\* C37: two concurrent cold-path writes returned success and the cold block
\* holds the sample of only one of them
C37_ConcurrentColdWriteLost ==
    \E i \in DOMAIN obs.reqs : \E j \in DOMAIN obs.reqs :
        /\ BothColdOk(i, j)
        /\ Concurrent(i, j)
        /\ HasColdSample(j)
        /\ ~HasColdSample(i)

(***************************************************************************)
(* Catalog and object store (SpecBatch).                                   *)
(***************************************************************************)
\* every key of the catalog names an object of the object store
CatalogResolves == \A sb \in DOMAIN catalog : catalog[sb].object_key \in DOMAIN objects

CatalogStep ==
    \* no object is deleted or overwritten
    /\ \A k \in DOMAIN objects : k \in DOMAIN objects' /\ objects'[k] = objects[k]
    \* a row is written only with the key of an object that already exists
    /\ \A sb \in DOMAIN catalog' :
          (sb \notin DOMAIN catalog \/ catalog'[sb] # catalog[sb]) =>
              catalog'[sb].object_key \in DOMAIN objects
    \* no row is removed
    /\ DOMAIN catalog \subseteq DOMAIN catalog'

\* C38 (catalog integrity): in every reachable state every object_key of the
\* catalog names an object that exists in the object store; the catalog is
\* upserted only with the key of an object written before, and no step
\* deletes or overwrites an object.
C38_CatalogIntegrity == []CatalogResolves /\ [][CatalogStep]_vars

\* C38: the row of a block was superseded: the catalog names the second
\* object written for it, and the first object is still in the store
C38_RowSuperseded ==
    \E sb \in DOMAIN catalog :
        /\ catalog[sb].object_key \in DOMAIN objects
        /\ \E k \in DOMAIN objects :
              /\ k < catalog[sb].object_key
              /\ \A sb2 \in DOMAIN catalog : catalog[sb2].object_key # k
              /\ objects[k].vals # objects[catalog[sb].object_key].vals

\* C39 (flush liveness, on finite runs): once every handler has returned and
\* every spawned flush task has ended, with all object-store and catalog
\* operations having succeeded, no block is left in a flushing map.  Nothing
\* but a further write to the series can start a flush task after that.
C39_FlushedAtRest ==
    Quiescent =>
        \A s \in DOMAIN hot : DOMAIN hot[s].flushing = {}

\* C39: no handler and no flush task is left, and block 0 is still in the
\* flushing map: the task spawned for it found the slot locked by a write
\* that went to the cold path, and went on to the end of its list
C39_BlockStranded ==
    /\ Quiescent
    /\ InFlushing(1, 0)
    /\ \E i \in DOMAIN obs.reqs : obs.reqs[i].state = "Ok" /\ IsSome(obs.reqs[i].cold)

(***************************************************************************)
(* SpecCrash: the serving process is killed and started again.  One        *)
(* connection sends single-sample requests; rotations spawn flush tasks,   *)
(* which persist the block and append its FLUSH record.  The kill takes    *)
(* the memory and the tasks and leaves the WAL directory and the cold      *)
(* store; the start scans, replays, force-flushes and cleans up.           *)
(*   obs.wal0   the directory the kill left                                *)
(*   obs.cold0  the cold samples the kill left, per timestamp              *)
(***************************************************************************)
InitCrash == Init /\ DOMAIN cl = {"c1"}

Kill ==
    /\ rec.pc = "serving"
    /\ hot' = EmptyMap
    /\ lock' = None
    /\ wal' = WalNew
    /\ tasks' = <<>>
    /\ cl' = [c \in {"main"} |-> ClientIdle]
    /\ rec' = RecStart(0)
    /\ obs' = [reqs |-> obs.reqs, wal0 |-> walDir, survivors |-> {}, first |-> None,
               cold0 |-> [t \in Timestamps |-> ColdSample(1, t)]]
    /\ UNCHANGED <<txid, walDir, objects, catalog>>

NextCrash ==
    \/ \E c \in DOMAIN cl : Arrive(c)
    \/ \E c \in DOMAIN cl : AllocTx(c)
    \/ \E c \in DOMAIN cl : WalWrite(c, NoFault)
    \/ \E c \in DOMAIN cl : HotTry(c)
    \/ \E c \in DOMAIN cl : HotWrite(c)
    \/ \E c \in DOMAIN cl : HotInsert(c)
    \/ \E c \in DOMAIN cl : ColdRead(c)
    \/ \E c \in DOMAIN cl : ColdPut(c)
    \/ \E c \in DOMAIN cl : ColdUpsert(c)
    \/ \E c \in DOMAIN cl : Return(c)
    \/ \E i \in DOMAIN tasks : TaskTry(i)
    \/ \E i \in DOMAIN tasks : TaskTake(i)
    \/ \E i \in DOMAIN tasks : TaskPut(i)
    \/ \E i \in DOMAIN tasks : TaskUpsert(i)
    \/ \E i \in DOMAIN tasks : TaskWalFlush(i)
    \/ Kill
    \/ \E order \in Orders(DOMAIN walDir) : RecScan(order)
    \/ RecReplayNext
    \/ RecReplayDone
    \/ RecTakeAll
    \/ RecFlushPut
    \/ RecFlushUpsert
    \/ RecCleanup

SpecCrash == InitCrash /\ [][NextCrash]_vars

\* the records of the whole frames of a directory
FileEntries(file) ==
    {entry_read(file[k].frame.payload).entry :
        k \in {j \in DOMAIN file : IsWhole(file[j]) /\ entry_read(file[j].frame.payload).ok}}
WalEntries(dir) == UNION {FileEntries(dir[f]) : f \in DOMAIN dir}

\* the FLUSH records the kill left, and the WRITE records they cover: same
\* series and block, tx not above the tx of the FLUSH
Flushes0 == {f \in WalEntries(obs.wal0) : f.tag = TAG_FLUSH}
CoveredBy(e, f) == f.series = e.series /\ f.block = e.block /\ e.tx <= f.tx
Covered(e) == \E f \in Flushes0 : CoveredBy(e, f)
BlockFlushed(s, b) == \E f \in Flushes0 : f.series = s /\ f.block = b

Scanned == rec.pc \in {"replay", "flush", "flush_upsert", "done"}

\* the surviving records above every FLUSH of their block that write t
LaterWrites(t) ==
    {e \in obs.survivors : ~Covered(e) /\ \E j \in DOMAIN e.ts : e.ts[j] = t}
LastWrite(t) == CHOOSE e \in LaterWrites(t) : \A e2 \in LaterWrites(t) : e2.tx <= e.tx
SampleOf(e, t) ==
    LET j == CHOOSE k \in DOMAIN e.ts : e.ts[k] = t /\ \A m \in DOMAIN e.ts : e.ts[m] = t => m <= k
    IN [v |-> e.vals[j], q |-> e.qs[j]]
ExpectedCold(t) ==
    IF LaterWrites(t) = {} THEN obs.cold0[t] ELSE SampleOf(LastWrite(t), t)

\* C40 (no stale replay of flushed writes): a WRITE record of a block with a
\* FLUSH record of the same series and block and a tx not below its own is
\* not among the records recovery replays; and once recovery has completed,
\* every sample of a block with a FLUSH record is the sample the cold store
\* held at the kill, unless a surviving WRITE above the FLUSH wrote it.
C40_NoStaleReplay ==
    /\ Scanned => \A e \in obs.survivors : ~Covered(e)
    /\ (Scanned /\ RecoveryCompleted) =>
          \A t \in Timestamps :
              BlockFlushed(1, BlockOfTs(1, t)) => ColdSample(1, t) = ExpectedCold(t)

\* C40: a WRITE below the FLUSH of its block was replayed, and after the
\* recovery a sample the flush had persisted is gone from the cold block
C40_StaleWriteReplayed ==
    /\ Scanned
    /\ RecoveryCompleted
    /\ \E e \in obs.survivors : \E f \in Flushes0 : CoveredBy(e, f) /\ e.tx < f.tx
    /\ \E t \in Timestamps :
          /\ BlockFlushed(1, BlockOfTs(1, t))
          /\ LaterWrites(t) = {}
          /\ ~is_missing(obs.cold0[t].q)
          /\ is_missing(ColdSample(1, t).q)

====
